---- MODULE Spec2Model ----
(***************************************************************************)
(* The reconciliation engine of the Raisely -> Storyblok importer:         *)
(* StoryblokService (src/unnamed/part_000, lines 1-954) and the bulk       *)
(* importer's batch dispatch (src/unnamed/part_007).                       *)
(*                                                                         *)
(* JavaScript strings are tuples of one-character strings, so that         *)
(* createSlug and the template strings that build full slugs are computed  *)
(* as the code computes them.  Every store request (an await on the        *)
(* Storyblok client) is one atomic step of the task that issues it; the    *)
(* synchronous code that follows it, up to the next request, belongs to    *)
(* the same step.  A create of a slug that already exists under the same   *)
(* parent is rejected with 422.  A run names the requests the store        *)
(* rejects otherwise (scn.faults); such a request has no effect on the     *)
(* store, and the catch block around it decides how the task goes on.      *)
(***************************************************************************)
EXTENDS Integers, Sequences, FiniteSets, TLC

VARIABLES
    stories,    \* the store: stories[id] is the node with that id
    cache,      \* StoryblokService._fundraisersParentId (0 is null)
    tasks,      \* the in-flight calls: position, locals, request log
    scn,        \* the calls this run issues and how they are dispatched
    run,        \* processBatch's position: batch offset and phase
    raced       \* history: two addTeamMember calls held the same snapshot

vars == <<stories, cache, tasks, scn, run, raced>>

-----------------------------------------------------------------------------
(* Strings *)

UpperSeq == <<"A","B","C","D","E","F","G","H","I","J","K","L","M",
              "N","O","P","Q","R","S","T","U","V","W","X","Y","Z">>
LowerSeq == <<"a","b","c","d","e","f","g","h","i","j","k","l","m",
              "n","o","p","q","r","s","t","u","v","w","x","y","z">>
Digits == {"0","1","2","3","4","5","6","7","8","9"}
Whitespace == {" "}
Hyphen == "-"

Range(f) == {f[i] : i \in DOMAIN f}

ToLower(c) ==
    IF \E i \in 1..Len(UpperSeq) : UpperSeq[i] = c
    THEN LowerSeq[CHOOSE i \in 1..Len(UpperSeq) : UpperSeq[i] = c]
    ELSE c

ToLowerCase(text) == [i \in 1..Len(text) |-> ToLower(text[i])]

\* the characters /[^a-z0-9\s-]/ does not match
IsSlugChar(c) == c \in Range(LowerSeq) \cup Digits \cup Whitespace \cup {Hyphen}

RemoveSpecial(text) == SelectSeq(text, IsSlugChar)

RECURSIVE DropRun(_, _)
DropRun(text, cls) ==
    IF text # <<>> /\ Head(text) \in cls THEN DropRun(Tail(text), cls) ELSE text

\* text.replace(/<cls>+/g, rep)
RECURSIVE ReplaceRuns(_, _, _)
ReplaceRuns(text, cls, rep) ==
    IF text = <<>> THEN <<>>
    ELSE IF Head(text) \in cls
         THEN <<rep>> \o ReplaceRuns(DropRun(text, cls), cls, rep)
         ELSE <<Head(text)>> \o ReplaceRuns(Tail(text), cls, rep)

RECURSIVE DropRunRight(_, _)
DropRunRight(text, cls) ==
    IF text # <<>> /\ text[Len(text)] \in cls
    THEN DropRunRight(SubSeq(text, 1, Len(text) - 1), cls)
    ELSE text

\* String.prototype.trim takes no argument: .trim('-') strips whitespace
Trim(text) == DropRunRight(DropRun(text, Whitespace), Whitespace)

\* variant: hyphen runs are collapsed before blanks become hyphens
createSlugHyphensFirst(text) ==
    Trim(ReplaceRuns(ReplaceRuns(RemoveSpecial(ToLowerCase(text)),
                                 {Hyphen}, Hyphen),
                     Whitespace, Hyphen))

createSlug(text) ==
    Trim(ReplaceRuns(ReplaceRuns(RemoveSpecial(ToLowerCase(text)),
                                 Whitespace, Hyphen),
                     {Hyphen}, Hyphen))

Slash == <<"/">>
FundraisersSlug == <<"f","u","n","d","r","a","i","s","e","r","s">>
EventsSlug == <<"e","v","e","n","t","s">>
TeamSlug == <<"t","e","a","m">>

IsPrefix(p, text) == Len(p) <= Len(text) /\ SubSeq(text, 1, Len(p)) = p

-----------------------------------------------------------------------------
(* The store: the Storyblok management API as the service uses it *)

Null == [null |-> TRUE]
NoId == 0
NoUuid == <<>>
Uuid(id) == <<"uuid", id>>

StoryIds == 1..Len(stories)
Stories == Range(stories)

\* GET stories?with_slug=<fullSlug>: the node at exactly that path
WithSlug(fullSlug) == {s \in Stories : s.full_slug = fullSlug}

FirstWithSlug(fullSlug) ==
    IF WithSlug(fullSlug) = {} THEN Null
    ELSE LET id == CHOOSE i \in StoryIds :
                     /\ stories[i].full_slug = fullSlug
                     /\ \A j \in StoryIds :
                          stories[j].full_slug = fullSlug => i <= j
         IN stories[id]

\* the uniqueness rule behind a 422: one slug per parent
Conflicts(data) ==
    \E s \in Stories : s.parent_id = data.parent_id /\ s.slug = data.slug

\* the id of the node a create makes; a rejected create makes none
NewId(data) == IF Conflicts(data) THEN NoId ELSE Len(stories) + 1

ParentPathIn(store, parentId) ==
    IF parentId = NoId THEN <<>> ELSE store[parentId].full_slug \o Slash

ParentPath(parentId) == ParentPathIn(stories, parentId)

Node(id, parentPath, data) ==
    [id |-> id,
     uuid |-> Uuid(id),
     name |-> data.name,
     slug |-> data.slug,
     full_slug |-> parentPath \o data.slug,
     parent_id |-> data.parent_id,
     is_folder |-> data.is_folder,
     content |-> data.content,
     published |-> data.published]

\* POST stories: the node the store creates
Created(data) == Node(Len(stories) + 1, ParentPath(data.parent_id), data)

\* { ...content, [key]: value }
Spread(content, key, value) ==
    [k \in DOMAIN content \cup {key} |-> IF k = key THEN value ELSE content[k]]

Get(content, key, default) ==
    IF key \in DOMAIN content THEN content[key] ELSE default

-----------------------------------------------------------------------------
(* Tasks: one per top-level call; nested calls keep a stack of return labels *)

\* processBatch's batch size and the length of the profile list
BatchSize == 2
MaxProfiles == 3

\* one task per profile of a bulk run; a pair of direct calls uses two
TaskIds == 1..MaxProfiles

NoGcf == [campaignName |-> <<>>, fundraisersParentId |-> NoId,
          newCampaignFolder |-> Null]
NoEv == [campaignName |-> <<>>, eventsFolder |-> Null,
         campaignFolder |-> Null, eventStory |-> Null]
NoAtm == [teamName |-> <<>>, campaignName |-> <<>>, memberUuid |-> NoUuid,
          teamStory |-> Null, fullTeamStory |-> Null]
NoSt == [teamData |-> Null, eventType |-> "", campaignFolder |-> Null,
         teamFolder |-> Null, existingTeam |-> Null, eventStory |-> Null,
         story |-> Null, actionType |-> ""]
NoSf == [fundraiserData |-> Null, eventType |-> "", teamData |-> Null,
         forceUpdate |-> FALSE, campaignFolder |-> Null, eventStory |-> Null,
         existingStory |-> Null, existingFundraiser |-> Null,
         teamReference |-> NoUuid, story |-> Null, actionType |-> ""]

IdleTask ==
    [pc |-> "idle", status |-> "idle", stack |-> <<>>, result |-> Null,
     error |-> "", log |-> <<>>, calls |-> 0,
     gcf |-> NoGcf, ev |-> NoEv, atm |-> NoAtm, st |-> NoSt, sf |-> NoSf]

\* a request the store rejects in this run is named by the task that issues
\* it and the point of the code it is issued from
Fault(t, pc) == [t |-> t, pc |-> pc]

Fails(t) == Fault(t, tasks[t].pc) \in scn.faults

\* every request a task issues is recorded with the function that issued it
Logged(tk, fn, op, id) ==
    [tk EXCEPT !.log = Append(@, [fn |-> fn, op |-> op, id |-> id])]

-----------------------------------------------------------------------------
(* Lookups that are a single request *)

CampaignPath(campaignSlug) == FundraisersSlug \o Slash \o campaignSlug

\* StoryblokService.findTeamStory
findTeamStoryPath(teamName, campaignName) ==
    CampaignPath(createSlug(campaignName)) \o Slash \o TeamSlug \o Slash
        \o createSlug(teamName)

findTeamStory(teamName, campaignName) ==
    FirstWithSlug(findTeamStoryPath(teamName, campaignName))

\* StoryblokService.findEventStory
findEventStory(campaignName) ==
    FirstWithSlug(EventsSlug \o Slash \o createSlug(campaignName))

First(S) == IF S = {} THEN Null
            ELSE stories[CHOOSE i \in StoryIds :
                           stories[i] \in S /\ \A s \in S : i <= s.id]

\* StoryblokService.findTeamFolder
findTeamFolder(campaignStory) ==
    First({s \in Stories :
             /\ IsPrefix(campaignStory.full_slug, s.full_slug)
             /\ s.is_folder
             /\ s.slug = TeamSlug
             /\ s.parent_id = campaignStory.id
             /\ s.full_slug = campaignStory.full_slug \o Slash \o TeamSlug})

\* variant: the lookup compares the folder's own slug with the full path
CampaignFolderBySlug(fullSlug) ==
    First({s \in Stories : s.slug = fullSlug /\ s.is_folder})

\* the folder both campaign lookups accept
CampaignFolderAt(fullSlug) ==
    First({s \in Stories : s.full_slug = fullSlug /\ s.is_folder})

\* the folder both root lookups accept
FundraisersFolder ==
    First({s \in Stories :
             s.slug = FundraisersSlug /\ s.is_folder
                 /\ s.full_slug = FundraisersSlug})

-----------------------------------------------------------------------------
(* Story payloads *)

Zero == [units |-> 0, hundredths |-> 0]

FolderContent == [component |-> "folder"]

campaignFolderData(campaignName, fundraisersParentId) ==
    [name |-> campaignName, slug |-> createSlug(campaignName),
     parent_id |-> fundraisersParentId, is_folder |-> TRUE,
     content |-> FolderContent, published |-> FALSE]

teamFolderData(newCampaignFolder) ==
    [name |-> <<"T","e","a","m">>, slug |-> TeamSlug,
     parent_id |-> newCampaignFolder.id, is_folder |-> TRUE,
     content |-> FolderContent, published |-> FALSE]

fundraisersFolderData ==
    [name |-> <<"F">> \o Tail(FundraisersSlug), slug |-> FundraisersSlug,
     parent_id |-> NoId, is_folder |-> TRUE,
     content |-> FolderContent, published |-> FALSE]

eventsFolderData ==
    [name |-> <<"E">> \o Tail(EventsSlug), slug |-> EventsSlug,
     parent_id |-> NoId, is_folder |-> TRUE,
     content |-> << >>, published |-> TRUE]

eventStoryData(campaignName, eventsFolder) ==
    [name |-> campaignName, slug |-> createSlug(campaignName),
     parent_id |-> eventsFolder.id, is_folder |-> FALSE,
     content |-> [component |-> "event", title |-> campaignName],
     published |-> FALSE]

EventUuid(eventStory) == IF eventStory = Null THEN NoUuid ELSE eventStory.uuid

\* createOrUpdateFundraiser's storyData (last_updated, a wall-clock stamp,
\* is left out)
fundraiserStoryData(fundraiserData, campaignFolder, eventStory, teamReference) ==
    [name |-> fundraiserData.name, slug |-> fundraiserData.path,
     parent_id |-> campaignFolder.id, is_folder |-> FALSE,
     published |-> FALSE,
     content |->
        [component |-> "fundraiser",
         name |-> fundraiserData.name,
         campaign |-> EventUuid(eventStory),
         team |-> IF teamReference # NoUuid THEN <<teamReference>> ELSE <<>>,
         description |-> fundraiserData.description,
         target_amount |-> fundraiserData.targetAmount,
         raised_amount |-> fundraiserData.raisedAmount,
         profile_url |-> fundraiserData.profileUrl,
         raisely_id |-> fundraiserData.raiselyId]]

\* variant: an update that starts the member list afresh
preservedTeamMembersEmpty(existingTeam) == <<>>

\* syncTeam: the member list an update writes back
preservedTeamMembers(existingTeam) ==
    IF existingTeam # Null THEN Get(existingTeam.content, "team", <<>>)
    ELSE <<>>

teamStoryData(teamData, teamFolder, eventStory, existingTeam) ==
    [name |-> teamData.name, slug |-> teamData.path,
     parent_id |-> teamFolder.id, is_folder |-> FALSE,
     published |-> FALSE,
     content |->
        [component |-> "fundraiser",
         name |-> teamData.name,
         description |-> teamData.description,
         target_amount |-> teamData.targetAmount,
         raised_amount |-> teamData.raisedAmount,
         profile_url |-> teamData.profileUrl,
         raisely_id |-> teamData.raiselyId,
         campaign |-> EventUuid(eventStory),
         team |-> preservedTeamMembers(existingTeam),
         is_team |-> TRUE]]

\* createOrUpdateFundraiser: the team it auto-creates for a missing team
minimalTeamData(teamData, fundraiserData) ==
    [name |-> teamData.name,
     path |-> IF teamData.path # <<>> THEN teamData.path
              ELSE createSlug(teamData.name),
     campaign |-> fundraiserData.campaign,
     description |-> <<"T","e","a","m"," ">> \o teamData.name,
     targetAmount |-> Zero,
     raisedAmount |-> Zero,
     profileUrl |-> <<>>,
     raiselyId |-> IF teamData.path # <<>> THEN teamData.path
                   ELSE createSlug(teamData.name),
     status |-> "ACTIVE"]

\* PUT stories/<id> with {name, slug, parent_id, content}
Updated(old, data) ==
    [old EXCEPT !.name = data.name, !.slug = data.slug,
                !.parent_id = data.parent_id,
                !.full_slug = ParentPath(data.parent_id) \o data.slug,
                !.content = data.content]

-----------------------------------------------------------------------------
(* Calls: the synchronous head of each async function, up to its first     *)
(* request.  label names the code that runs when the call returns.         *)

Push(tk, label) == [tk EXCEPT !.stack = <<label>> \o @]

\* getOrCreateCampaignFolder; getFundraisersParentId answers from the cache
\* without a request once the cache is set
getOrCreateCampaignFolder(tk, campaignName, label) ==
    [Push(tk, label) EXCEPT
        !.gcf = [NoGcf EXCEPT !.campaignName = campaignName,
                              !.fundraisersParentId = cache],
        !.pc = IF cache # NoId THEN "gcf_exact" ELSE "gfp_exact"]

createEventStory(tk, campaignName, campaignFolder, label) ==
    [Push(tk, label) EXCEPT
        !.ev = [NoEv EXCEPT !.campaignName = campaignName,
                            !.campaignFolder = campaignFolder],
        !.pc = "gef_list"]

currentEvents(campaignFolder) == Get(campaignFolder.content, "events", <<>>)

eventAlreadyReferenced(campaignFolder, eventStory) ==
    eventStory.uuid \in Range(currentEvents(campaignFolder))

addTeamMember(tk, teamName, campaignName, memberUuid, label) ==
    [Push(tk, label) EXCEPT
        !.atm = [NoAtm EXCEPT !.teamName = teamName,
                              !.campaignName = campaignName,
                              !.memberUuid = memberUuid],
        !.pc = "atm_find"]

\* BulkImporter.setupCampaignFolders, for one campaign of the export
setupCampaignFolders(tk, campaignName, label) ==
    getOrCreateCampaignFolder(Push(tk, label), campaignName, "scf_folder")

syncTeam(tk, teamData, eventType, label) ==
    getOrCreateCampaignFolder(
        [Push(tk, label) EXCEPT
            !.st = [NoSt EXCEPT !.teamData = teamData,
                                !.eventType = eventType]],
        teamData.campaign, "st_folder")

syncFundraiser(tk, raiselyData, eventType, teamData, forceUpdate, label) ==
    getOrCreateCampaignFolder(
        [Push(tk, label) EXCEPT
            !.sf = [NoSf EXCEPT !.fundraiserData = raiselyData,
                                !.eventType = eventType,
                                !.teamData = teamData,
                                !.forceUpdate = forceUpdate]],
        raiselyData.campaign, "sf_folder")

\* syncFundraiser, after the event is resolved: the profile.created check
\* or straight to createOrUpdateFundraiser
Sync_AfterEvent(tk) ==
    [tk EXCEPT !.pc = IF tk.sf.eventType = "profile.created"
                      THEN "sf_checkExisting" ELSE "cf_lookup"]

\* variant: the upsert follows the folder, the event is not resolved
Sync_AfterFolderUpsert(tk, campaignFolder) ==
    Sync_AfterEvent([tk EXCEPT !.sf.campaignFolder = campaignFolder])

\* syncFundraiser, with the campaign folder in hand: the event is resolved
Sync_AfterFolder(tk, campaignFolder) ==
    [tk EXCEPT !.sf.campaignFolder = campaignFolder, !.pc = "sf_findEvent"]

RECURSIVE Return(_, _)

\* the event was created (or not): patch the campaign's back-reference
Resume(tk, label) ==
    IF label = "sf_afterEvent" THEN Sync_AfterEvent(tk)
    ELSE IF label = "scf_done" THEN Return(tk, Null)
    ELSE [tk EXCEPT !.pc = label]

\* variant: the patch is issued whether or not the event is listed
AfterCreateEventAlways(tk, eventStory, label) ==
    IF eventStory # Null
    THEN [Push(tk, label) EXCEPT !.ev.eventStory = eventStory,
                                 !.pc = "ucr_put"]
    ELSE Resume(tk, label)

AfterCreateEvent(tk, eventStory, label) ==
    IF eventStory # Null
          /\ ~eventAlreadyReferenced(tk.ev.campaignFolder, eventStory)
    THEN [Push(tk, label) EXCEPT !.ev.eventStory = eventStory,
                                 !.pc = "ucr_put"]
    ELSE Resume(tk, label)

\* variant: processProfile without its catch
ThrowUncaught(tk, error) ==
    [tk EXCEPT !.pc = "done", !.status = "failed", !.error = error,
               !.stack = <<>>]

\* an uncaught error: every catch on the way up rethrows, so a direct call
\* rejects; processProfile's catch records the error and resolves
Throw(tk, error) ==
    [tk EXCEPT !.pc = "done",
               !.status = IF tk.stack[Len(tk.stack)] = "pp" THEN "errored"
                          ELSE "failed",
               !.error = error,
               !.stack = <<>>]

\* the synchronous code that runs when a nested call returns rv
Return(tk, rv) ==
    LET label == Head(tk.stack)
        up == [tk EXCEPT !.stack = Tail(@)]
    IN CASE label \in {"top", "pp"} ->
              [up EXCEPT !.pc = "done", !.status = "done", !.result = rv]
         [] label = "sf_folder" -> Sync_AfterFolder(up, rv)
         [] label = "st_folder" ->
              [up EXCEPT !.st.campaignFolder = rv, !.pc = "st_findTeamFolder"]
         [] label = "sf_event" ->
              AfterCreateEvent([up EXCEPT !.sf.eventStory = rv], rv,
                               "sf_afterEvent")
         [] label = "st_event" ->
              AfterCreateEvent([up EXCEPT !.st.eventStory = rv], rv, "st_write")
         [] label \in {"sf_afterEvent", "st_write", "scf_done"} ->
              Resume(up, label)
         [] label = "scf_folder" ->
              [up EXCEPT !.ev = [NoEv EXCEPT
                                    !.campaignName = up.gcf.campaignName,
                                    !.campaignFolder = rv],
                         !.pc = "scf_findEvent"]
         [] label = "scf_event" ->
              AfterCreateEvent(up, rv, "scf_done")
         [] label = "cf_team" ->
              [up EXCEPT !.sf.teamReference = rv.story.uuid,
                         !.pc = "cf_write"]
         [] label = "sf_found" ->
              Return(up, [story |-> up.sf.existingStory, action |-> "found"])
         [] label = "cf_member" ->
              Return(up, [story |-> up.sf.story, action |-> up.sf.actionType])

\* variant: no unpublish branch
upsertTransitionPublishOnly(status, existingFundraiser) ==
    IF status = "ACTIVE" THEN "publish" ELSE "none"

\* createOrUpdateFundraiser and syncTeam: the call that follows the write
upsertTransition(status, existingFundraiser) ==
    IF status = "ACTIVE" THEN "publish"
    ELSE IF status = "DRAFT" /\ existingFundraiser # Null THEN "unpublish"
    ELSE "none"

\* variant: a team is published whatever its status
teamTransitionPublish(status, existingTeam) == "publish"

teamTransition(status, existingTeam) ==
    IF status = "ACTIVE" THEN "publish"
    ELSE IF status = "DRAFT" /\ existingTeam # Null THEN "unpublish"
    ELSE "none"

\* createOrUpdateFundraiser, after the publish step: the team merge
AfterPublish(tk) ==
    IF tk.sf.teamData # Null /\ tk.sf.teamReference # NoUuid
    THEN addTeamMember(tk, tk.sf.teamData.name, tk.sf.fundraiserData.campaign,
                       tk.sf.story.uuid, "cf_member")
    ELSE Return(tk, [story |-> tk.sf.story, action |-> tk.sf.actionType])

Publish(id) == stories' = [stories EXCEPT ![id].published = TRUE]
Unpublish(id) == stories' = [stories EXCEPT ![id].published = FALSE]

-----------------------------------------------------------------------------
(* StoryblokService.getFundraisersParentId *)

Root_Exact(t) ==
    /\ tasks[t].pc = "gfp_exact"
    /\ ~Fails(t)
    /\ LET tk == Logged(tasks[t], "getFundraisersParentId", "get", NoId)
           found == FundraisersFolder
       IN IF found # Null
          THEN /\ cache' = found.id
               /\ tasks' = [tasks EXCEPT ![t] =
                     [tk EXCEPT !.gcf.fundraisersParentId = found.id,
                                !.pc = "gcf_exact"]]
          ELSE /\ cache' = cache
               /\ tasks' = [tasks EXCEPT ![t] = [tk EXCEPT !.pc = "gfp_broad"]]
    /\ UNCHANGED <<stories, scn, run, raced>>

Root_Broad(t) ==
    /\ tasks[t].pc = "gfp_broad"
    /\ ~Fails(t)
    /\ LET tk == Logged(tasks[t], "getFundraisersParentId", "list", NoId)
           found == FundraisersFolder
       IN IF found # Null
          THEN /\ cache' = found.id
               /\ tasks' = [tasks EXCEPT ![t] =
                     [tk EXCEPT !.gcf.fundraisersParentId = found.id,
                                !.pc = "gcf_exact"]]
          ELSE /\ cache' = cache
               /\ tasks' = [tasks EXCEPT ![t] = [tk EXCEPT !.pc = "gfp_create"]]
    /\ UNCHANGED <<stories, scn, run, raced>>

Root_Create(t) ==
    /\ tasks[t].pc = "gfp_create"
    /\ ~Fails(t)
    /\ LET tk == Logged(tasks[t], "getFundraisersParentId", "post",
                        NewId(fundraisersFolderData))
           story == Created(fundraisersFolderData)
       IN IF Conflicts(fundraisersFolderData)
          THEN /\ tasks' = [tasks EXCEPT ![t] = Throw(tk, "422")]
               /\ UNCHANGED <<stories, cache>>
          ELSE /\ stories' = Append(stories, story)
               /\ cache' = story.id
               /\ tasks' = [tasks EXCEPT ![t] =
                     [tk EXCEPT !.gcf.fundraisersParentId = story.id,
                                !.pc = "gcf_exact"]]
    /\ UNCHANGED <<scn, run, raced>>

-----------------------------------------------------------------------------
(* StoryblokService.getOrCreateCampaignFolder *)

\* variant: a miss of the exact lookup goes straight to the create
Campaign_ExactOnly(t) ==
    /\ tasks[t].pc = "gcf_exact"
    /\ ~Fails(t)
    /\ LET tk == Logged(tasks[t], "getOrCreateCampaignFolder", "get", NoId)
           found == CampaignFolderAt(
                        CampaignPath(createSlug(tk.gcf.campaignName)))
       IN tasks' = [tasks EXCEPT ![t] =
                      IF found # Null THEN Return(tk, found)
                      ELSE [tk EXCEPT !.pc = "gcf_create"]]
    /\ UNCHANGED <<stories, cache, scn, run, raced>>

Campaign_Exact(t) ==
    /\ tasks[t].pc = "gcf_exact"
    /\ ~Fails(t)
    /\ LET tk == Logged(tasks[t], "getOrCreateCampaignFolder", "get", NoId)
           found == CampaignFolderAt(
                        CampaignPath(createSlug(tk.gcf.campaignName)))
       IN tasks' = [tasks EXCEPT ![t] =
                      IF found # Null THEN Return(tk, found)
                      ELSE [tk EXCEPT !.pc = "gcf_broad"]]
    /\ UNCHANGED <<stories, cache, scn, run, raced>>

Campaign_Broad(t) ==
    /\ tasks[t].pc = "gcf_broad"
    /\ ~Fails(t)
    /\ LET tk == Logged(tasks[t], "getOrCreateCampaignFolder", "list", NoId)
           found == CampaignFolderAt(
                        CampaignPath(createSlug(tk.gcf.campaignName)))
       IN tasks' = [tasks EXCEPT ![t] =
                      IF found # Null THEN Return(tk, found)
                      ELSE [tk EXCEPT !.pc = "gcf_create"]]
    /\ UNCHANGED <<stories, cache, scn, run, raced>>

\* a 422 leads to the retry lookup (after the fixed wait)
Campaign_Create(t) ==
    /\ tasks[t].pc = "gcf_create"
    /\ ~Fails(t)
    /\ LET tk == Logged(tasks[t], "getOrCreateCampaignFolder", "post",
                        NewId(campaignFolderData(tasks[t].gcf.campaignName,
                                                 tasks[t].gcf.fundraisersParentId)))
           data == campaignFolderData(tk.gcf.campaignName,
                                      tk.gcf.fundraisersParentId)
       IN IF Conflicts(data)
          THEN /\ tasks' = [tasks EXCEPT ![t] = [tk EXCEPT !.pc = "gcf_retry"]]
               /\ UNCHANGED stories
          ELSE /\ stories' = Append(stories, Created(data))
               /\ tasks' = [tasks EXCEPT ![t] =
                     [tk EXCEPT !.gcf.newCampaignFolder = Created(data),
                                !.pc = "gcf_createTeam"]]
    /\ UNCHANGED <<cache, scn, run, raced>>

\* the Team folder's create; its 422 is caught by the same handler as the
\* campaign's
Campaign_CreateTeam(t) ==
    /\ tasks[t].pc = "gcf_createTeam"
    /\ ~Fails(t)
    /\ LET tk == Logged(tasks[t], "getOrCreateCampaignFolder", "post",
                        NewId(teamFolderData(tasks[t].gcf.newCampaignFolder)))
           data == teamFolderData(tk.gcf.newCampaignFolder)
       IN IF Conflicts(data)
          THEN /\ tasks' = [tasks EXCEPT ![t] = [tk EXCEPT !.pc = "gcf_retry"]]
               /\ UNCHANGED stories
          ELSE /\ stories' = Append(stories, Created(data))
               /\ tasks' = [tasks EXCEPT ![t] =
                     Return(tk, tk.gcf.newCampaignFolder)]
    /\ UNCHANGED <<cache, scn, run, raced>>

\* variant: the 422 propagates without a second lookup
Campaign_RetryNever(t) ==
    /\ tasks[t].pc = "gcf_retry"
    /\ ~Fails(t)
    /\ tasks' = [tasks EXCEPT ![t] = Throw(tasks[t], "422")]
    /\ UNCHANGED <<stories, cache, scn, run, raced>>

Campaign_Retry(t) ==
    /\ tasks[t].pc = "gcf_retry"
    /\ ~Fails(t)
    /\ LET tk == Logged(tasks[t], "getOrCreateCampaignFolder", "get", NoId)
           found == CampaignFolderAt(
                        CampaignPath(createSlug(tk.gcf.campaignName)))
       IN tasks' = [tasks EXCEPT ![t] =
                      IF found # Null THEN Return(tk, found)
                      ELSE Throw(tk, "422")]
    /\ UNCHANGED <<stories, cache, scn, run, raced>>

-----------------------------------------------------------------------------
(* createEventStory, getOrCreateEventsFolder, updateCampaignEventReference *)

Events_List(t) ==
    /\ tasks[t].pc = "gef_list"
    /\ ~Fails(t)
    /\ LET tk == Logged(tasks[t], "getOrCreateEventsFolder", "list", NoId)
           eventsFolder ==
               First({s \in Stories :
                        s.is_folder /\ (s.slug = EventsSlug
                                          \/ ToLowerCase(s.name) = EventsSlug)})
           eventsStory ==
               First({s \in Stories : ~s.is_folder /\ s.slug = EventsSlug})
           found == IF eventsFolder # Null THEN eventsFolder ELSE eventsStory
       IN tasks' = [tasks EXCEPT ![t] =
                      IF found # Null
                      THEN [tk EXCEPT !.ev.eventsFolder = found,
                                      !.pc = "ces_post"]
                      ELSE [tk EXCEPT !.pc = "gef_create"]]
    /\ UNCHANGED <<stories, cache, scn, run, raced>>

\* a failed create makes getOrCreateEventsFolder, then createEventStory,
\* return null
Events_Create(t) ==
    /\ tasks[t].pc = "gef_create"
    /\ ~Fails(t)
    /\ LET tk == Logged(tasks[t], "getOrCreateEventsFolder", "post",
                        NewId(eventsFolderData))
       IN IF Conflicts(eventsFolderData)
          THEN /\ tasks' = [tasks EXCEPT ![t] = Return(tk, Null)]
               /\ UNCHANGED stories
          ELSE /\ stories' = Append(stories, Created(eventsFolderData))
               /\ tasks' = [tasks EXCEPT ![t] =
                     [tk EXCEPT !.ev.eventsFolder = Created(eventsFolderData),
                                !.pc = "ces_post"]]
    /\ UNCHANGED <<cache, scn, run, raced>>

Event_Post(t) ==
    /\ tasks[t].pc = "ces_post"
    /\ ~Fails(t)
    /\ LET tk == Logged(tasks[t], "createEventStory", "post",
                        NewId(eventStoryData(tasks[t].ev.campaignName,
                                             tasks[t].ev.eventsFolder)))
           data == eventStoryData(tk.ev.campaignName, tk.ev.eventsFolder)
       IN IF Conflicts(data)
          THEN /\ tasks' = [tasks EXCEPT ![t] = Return(tk, Null)]
               /\ UNCHANGED stories
          ELSE /\ stories' = Append(stories, Created(data))
               /\ tasks' = [tasks EXCEPT ![t] = Return(tk, Created(data))]
    /\ UNCHANGED <<cache, scn, run, raced>>

\* the back-reference patch, built from the folder object the caller holds
Campaign_PutEvent(t) ==
    /\ tasks[t].pc = "ucr_put"
    /\ ~Fails(t)
    /\ LET folder == tasks[t].ev.campaignFolder
           tk == Logged(tasks[t], "updateCampaignEventReference", "put",
                        folder.id)
           updatedContent ==
               Spread(Spread(folder.content, "component",
                             Get(folder.content, "component", "campaign")),
                      "events",
                      Append(currentEvents(folder), tk.ev.eventStory.uuid))
       IN /\ stories' = [stories EXCEPT ![folder.id].content = updatedContent]
          /\ tasks' = [tasks EXCEPT ![t] = Return(tk, Null)]
    /\ UNCHANGED <<cache, scn, run, raced>>

-----------------------------------------------------------------------------
(* BulkImporter.setupCampaignFolders *)

\* the event is looked up; one that is found is referenced from the
\* campaign's folder, one that is missing is created first
Setup_FindEvent(t) ==
    /\ tasks[t].pc = "scf_findEvent"
    /\ ~Fails(t)
    /\ LET tk == Logged(tasks[t], "findEventStory", "get", NoId)
           eventStory == findEventStory(tk.ev.campaignName)
       IN tasks' = [tasks EXCEPT ![t] =
                      IF eventStory # Null
                      THEN AfterCreateEvent(tk, eventStory, "scf_done")
                      ELSE createEventStory(tk, tk.ev.campaignName,
                                            tk.ev.campaignFolder, "scf_event")]
    /\ UNCHANGED <<stories, cache, scn, run, raced>>

-----------------------------------------------------------------------------
(* StoryblokService.syncTeam *)

Team_FindTeamFolder(t) ==
    /\ tasks[t].pc = "st_findTeamFolder"
    /\ ~Fails(t)
    /\ LET tk == Logged(tasks[t], "findTeamFolder", "list", NoId)
           teamFolder == findTeamFolder(tk.st.campaignFolder)
       IN tasks' = [tasks EXCEPT ![t] =
                      IF teamFolder = Null
                      THEN Throw(tk, "Team folder not found")
                      ELSE [tk EXCEPT !.st.teamFolder = teamFolder,
                                      !.pc = "st_lookup"]]
    /\ UNCHANGED <<stories, cache, scn, run, raced>>

teamFullSlug(teamData, campaignFolder) ==
    CampaignPath(campaignFolder.slug) \o Slash \o TeamSlug \o Slash
        \o teamData.path

Team_Lookup(t) ==
    /\ tasks[t].pc = "st_lookup"
    /\ ~Fails(t)
    /\ LET tk == Logged(tasks[t], "syncTeam", "get", NoId)
           existingTeam ==
               FirstWithSlug(teamFullSlug(tk.st.teamData, tk.st.campaignFolder))
       IN tasks' = [tasks EXCEPT ![t] =
                      [tk EXCEPT !.st.existingTeam = existingTeam,
                                 !.pc = "st_findEvent"]]
    /\ UNCHANGED <<stories, cache, scn, run, raced>>

Team_FindEvent(t) ==
    /\ tasks[t].pc = "st_findEvent"
    /\ ~Fails(t)
    /\ LET tk == Logged(tasks[t], "findEventStory", "get", NoId)
           eventStory == findEventStory(tk.st.teamData.campaign)
       IN tasks' = [tasks EXCEPT ![t] =
                      IF eventStory # Null
                      THEN [tk EXCEPT !.st.eventStory = eventStory,
                                      !.pc = "st_write"]
                      ELSE createEventStory(tk, tk.st.teamData.campaign,
                                            tk.st.campaignFolder, "st_event")]
    /\ UNCHANGED <<stories, cache, scn, run, raced>>

TeamAfterWrite(tk, story, actionType) ==
    LET tk1 == [tk EXCEPT !.st.story = story, !.st.actionType = actionType]
        step == teamTransition(tk.st.teamData.status, tk.st.existingTeam)
    IN IF step = "publish" THEN [tk1 EXCEPT !.pc = "st_publish"]
       ELSE IF step = "unpublish" THEN [tk1 EXCEPT !.pc = "st_unpublish"]
       ELSE Return(tk1, [story |-> story, action |-> actionType])

Team_Write(t) ==
    /\ tasks[t].pc = "st_write"
    /\ ~Fails(t)
    /\ LET st == tasks[t].st
           data == teamStoryData(st.teamData, st.teamFolder, st.eventStory,
                                 st.existingTeam)
       IN IF st.existingTeam # Null
          THEN LET id == st.existingTeam.id
                   story == Updated(stories[id], data)
                   tk == Logged(tasks[t], "syncTeam", "put", id)
               IN /\ stories' = [stories EXCEPT ![id] = story]
                  /\ tasks' = [tasks EXCEPT ![t] =
                                 TeamAfterWrite(tk, story, "updated")]
          ELSE LET tk == Logged(tasks[t], "syncTeam", "post",
                                NewId(data))
               IN IF Conflicts(data)
                  THEN /\ tasks' = [tasks EXCEPT ![t] = Throw(tk, "422")]
                       /\ UNCHANGED stories
                  ELSE /\ stories' = Append(stories, Created(data))
                       /\ tasks' = [tasks EXCEPT ![t] =
                             TeamAfterWrite(tk, Created(data), "created")]
    /\ UNCHANGED <<cache, scn, run, raced>>

Team_Publish(t) ==
    /\ tasks[t].pc = "st_publish"
    /\ ~Fails(t)
    /\ LET tk == Logged(tasks[t], "syncTeam", "publish", tasks[t].st.story.id)
       IN /\ Publish(tk.st.story.id)
          /\ tasks' = [tasks EXCEPT ![t] =
                Return(tk, [story |-> tk.st.story,
                            action |-> tk.st.actionType])]
    /\ UNCHANGED <<cache, scn, run, raced>>

Team_Unpublish(t) ==
    /\ tasks[t].pc = "st_unpublish"
    /\ ~Fails(t)
    /\ LET tk == Logged(tasks[t], "syncTeam", "unpublish",
                        tasks[t].st.story.id)
       IN /\ Unpublish(tk.st.story.id)
          /\ tasks' = [tasks EXCEPT ![t] =
                Return(tk, [story |-> tk.st.story,
                            action |-> tk.st.actionType])]
    /\ UNCHANGED <<cache, scn, run, raced>>

-----------------------------------------------------------------------------
(* StoryblokService.syncFundraiser *)

\* variant: the lookup path without the campaign segment
fundraiserFullSlugFlat(fundraiserData, campaignFolder) ==
    FundraisersSlug \o Slash \o fundraiserData.path

fundraiserFullSlug(fundraiserData, campaignFolder) ==
    CampaignPath(campaignFolder.slug) \o Slash \o fundraiserData.path

Sync_FindEvent(t) ==
    /\ tasks[t].pc = "sf_findEvent"
    /\ ~Fails(t)
    /\ LET tk == Logged(tasks[t], "findEventStory", "get", NoId)
           eventStory == findEventStory(tk.sf.fundraiserData.campaign)
       IN tasks' = [tasks EXCEPT ![t] =
                      IF eventStory # Null
                      THEN Sync_AfterEvent(
                               [tk EXCEPT !.sf.eventStory = eventStory])
                      ELSE createEventStory(tk, tk.sf.fundraiserData.campaign,
                                            tk.sf.campaignFolder, "sf_event")]
    /\ UNCHANGED <<stories, cache, scn, run, raced>>

\* variant: the existing fundraiser is looked up and then upserted all the same
Sync_CheckExistingUpsert(t) ==
    /\ tasks[t].pc = "sf_checkExisting"
    /\ ~Fails(t)
    /\ LET tk == Logged(tasks[t], "syncFundraiser", "get", NoId)
           existingStory ==
               FirstWithSlug(fundraiserFullSlug(tk.sf.fundraiserData,
                                                tk.sf.campaignFolder))
       IN tasks' = [tasks EXCEPT ![t] =
              [tk EXCEPT !.sf.existingStory = existingStory,
                         !.pc = "cf_lookup"]]
    /\ UNCHANGED <<stories, cache, scn, run, raced>>

\* profile.created: an existing fundraiser is skipped unless forceUpdate
Sync_CheckExisting(t) ==
    /\ tasks[t].pc = "sf_checkExisting"
    /\ ~Fails(t)
    /\ LET tk == Logged(tasks[t], "syncFundraiser", "get", NoId)
           sf == tk.sf
           existingStory ==
               FirstWithSlug(fundraiserFullSlug(sf.fundraiserData,
                                                sf.campaignFolder))
           found == [tk EXCEPT !.sf.existingStory = existingStory]
       IN tasks' = [tasks EXCEPT ![t] =
              IF existingStory # Null /\ ~sf.forceUpdate
              THEN IF sf.teamData # Null
                   THEN addTeamMember(found, sf.teamData.name,
                                      sf.fundraiserData.campaign,
                                      existingStory.uuid, "sf_found")
                   ELSE Return(found, [story |-> existingStory,
                                       action |-> "found"])
              ELSE [found EXCEPT !.pc = "cf_lookup"]]
    /\ UNCHANGED <<stories, cache, scn, run, raced>>

-----------------------------------------------------------------------------
(* StoryblokService.createOrUpdateFundraiser *)

Upsert_Lookup(t) ==
    /\ tasks[t].pc = "cf_lookup"
    /\ ~Fails(t)
    /\ LET tk == Logged(tasks[t], "createOrUpdateFundraiser", "get", NoId)
           existingFundraiser ==
               FirstWithSlug(fundraiserFullSlug(tk.sf.fundraiserData,
                                                tk.sf.campaignFolder))
       IN tasks' = [tasks EXCEPT ![t] =
              [tk EXCEPT !.sf.existingFundraiser = existingFundraiser,
                         !.pc = IF tk.sf.teamData # Null THEN "cf_findTeam"
                                ELSE "cf_write"]]
    /\ UNCHANGED <<stories, cache, scn, run, raced>>

\* a missing team is created as a minimal team story
Upsert_FindTeam(t) ==
    /\ tasks[t].pc = "cf_findTeam"
    /\ ~Fails(t)
    /\ LET tk == Logged(tasks[t], "findTeamStory", "get", NoId)
           sf == tk.sf
           teamStory == findTeamStory(sf.teamData.name,
                                      sf.fundraiserData.campaign)
       IN tasks' = [tasks EXCEPT ![t] =
              IF teamStory = Null
              THEN syncTeam(tk, minimalTeamData(sf.teamData, sf.fundraiserData),
                            "profile.created", "cf_team")
              ELSE [tk EXCEPT !.sf.teamReference = teamStory.uuid,
                              !.pc = "cf_write"]]
    /\ UNCHANGED <<stories, cache, scn, run, raced>>

UpsertAfterWrite(tk, story, actionType) ==
    LET tk1 == [tk EXCEPT !.sf.story = story, !.sf.actionType = actionType]
        step == upsertTransition(tk.sf.fundraiserData.status,
                                 tk.sf.existingFundraiser)
    IN IF step = "publish" THEN [tk1 EXCEPT !.pc = "cf_publish"]
       ELSE IF step = "unpublish" THEN [tk1 EXCEPT !.pc = "cf_unpublish"]
       ELSE AfterPublish(tk1)

Upsert_Write(t) ==
    /\ tasks[t].pc = "cf_write"
    /\ ~Fails(t)
    /\ LET sf == tasks[t].sf
           data == fundraiserStoryData(sf.fundraiserData, sf.campaignFolder,
                                       sf.eventStory, sf.teamReference)
       IN IF sf.existingFundraiser # Null
          THEN LET id == sf.existingFundraiser.id
                   story == Updated(stories[id], data)
                   tk == Logged(tasks[t], "createOrUpdateFundraiser", "put", id)
               IN /\ stories' = [stories EXCEPT ![id] = story]
                  /\ tasks' = [tasks EXCEPT ![t] =
                                 UpsertAfterWrite(tk, story, "updated")]
          ELSE LET tk == Logged(tasks[t], "createOrUpdateFundraiser", "post",
                                NewId(data))
               IN IF Conflicts(data)
                  THEN /\ tasks' = [tasks EXCEPT ![t] = Throw(tk, "422")]
                       /\ UNCHANGED stories
                  ELSE /\ stories' = Append(stories, Created(data))
                       /\ tasks' = [tasks EXCEPT ![t] =
                             UpsertAfterWrite(tk, Created(data), "created")]
    /\ UNCHANGED <<cache, scn, run, raced>>

Upsert_Publish(t) ==
    /\ tasks[t].pc = "cf_publish"
    /\ ~Fails(t)
    /\ LET tk == Logged(tasks[t], "createOrUpdateFundraiser", "publish",
                        tasks[t].sf.story.id)
       IN /\ Publish(tk.sf.story.id)
          /\ tasks' = [tasks EXCEPT ![t] = AfterPublish(tk)]
    /\ UNCHANGED <<cache, scn, run, raced>>

Upsert_Unpublish(t) ==
    /\ tasks[t].pc = "cf_unpublish"
    /\ ~Fails(t)
    /\ LET tk == Logged(tasks[t], "createOrUpdateFundraiser", "unpublish",
                        tasks[t].sf.story.id)
       IN /\ Unpublish(tk.sf.story.id)
          /\ tasks' = [tasks EXCEPT ![t] = AfterPublish(tk)]
    /\ UNCHANGED <<cache, scn, run, raced>>

-----------------------------------------------------------------------------
(* StoryblokService.addTeamMember *)

Member_Find(t) ==
    /\ tasks[t].pc = "atm_find"
    /\ ~Fails(t)
    /\ LET tk == Logged(tasks[t], "findTeamStory", "get", NoId)
           teamStory == findTeamStory(tk.atm.teamName, tk.atm.campaignName)
       IN tasks' = [tasks EXCEPT ![t] =
                      IF teamStory = Null
                      THEN Return(tk, Null)
                      ELSE [tk EXCEPT !.atm.teamStory = teamStory,
                                      !.pc = "atm_fetch"]]
    /\ UNCHANGED <<stories, cache, scn, run, raced>>

currentMembers(fullTeamStory) == Get(fullTeamStory.content, "team", <<>>)

\* variant: the list is written back whether or not it holds the member
Member_FetchThenPut(t) ==
    /\ tasks[t].pc = "atm_fetch"
    /\ ~Fails(t)
    /\ LET tk == Logged(tasks[t], "addTeamMember", "get",
                        tasks[t].atm.teamStory.id)
       IN tasks' = [tasks EXCEPT ![t] =
                      [tk EXCEPT !.atm.fullTeamStory =
                                     stories[tk.atm.teamStory.id],
                                 !.pc = "atm_put"]]
    /\ UNCHANGED <<stories, cache, scn, run, raced>>

\* the re-fetch of the full story by id
Member_Fetch(t) ==
    /\ tasks[t].pc = "atm_fetch"
    /\ ~Fails(t)
    /\ LET tk == Logged(tasks[t], "addTeamMember", "get",
                        tasks[t].atm.teamStory.id)
           fullTeamStory == stories[tk.atm.teamStory.id]
           next == IF tk.atm.memberUuid
                        \in Range(currentMembers(fullTeamStory))
                   THEN "atm_republish" ELSE "atm_put"
       IN /\ tasks' = [tasks EXCEPT ![t] =
                         [tk EXCEPT !.atm.fullTeamStory = fullTeamStory,
                                    !.pc = next]]
          /\ raced' = (raced \/ (next = "atm_put" /\
                         \E u \in TaskIds \ {t} :
                            /\ tasks[u].pc = "atm_put"
                            /\ tasks[u].atm.teamStory.id = tk.atm.teamStory.id))
    /\ UNCHANGED <<stories, cache, scn, run>>

\* variant: the new list holds only the new member
updatedMembersOnly(members, memberUuid) == <<memberUuid>>

updatedMembers(members, memberUuid) == Append(members, memberUuid)

\* an append computed against the store's list at the time of the write
Member_PutAtomic(t) ==
    /\ tasks[t].pc = "atm_put"
    /\ ~Fails(t)
    /\ LET tk == Logged(tasks[t], "addTeamMember", "put",
                        tasks[t].atm.teamStory.id)
           id == tk.atm.teamStory.id
           now == stories[id]
       IN /\ stories' = [stories EXCEPT ![id].content =
                Spread(now.content, "team",
                       IF tk.atm.memberUuid \in Range(currentMembers(now))
                       THEN currentMembers(now)
                       ELSE updatedMembers(currentMembers(now),
                                           tk.atm.memberUuid))]
          /\ tasks' = [tasks EXCEPT ![t] = [tk EXCEPT !.pc = "atm_publish"]]
    /\ UNCHANGED <<cache, scn, run, raced>>

\* the write-back: the content fetched earlier with only team replaced
Member_Put(t) ==
    /\ tasks[t].pc = "atm_put"
    /\ ~Fails(t)
    /\ LET tk == Logged(tasks[t], "addTeamMember", "put",
                        tasks[t].atm.teamStory.id)
           id == tk.atm.teamStory.id
           full == tk.atm.fullTeamStory
       IN /\ stories' = [stories EXCEPT ![id].content =
                Spread(full.content, "team",
                       updatedMembers(currentMembers(full),
                                      tk.atm.memberUuid))]
          /\ tasks' = [tasks EXCEPT ![t] = [tk EXCEPT !.pc = "atm_publish"]]
    /\ UNCHANGED <<cache, scn, run, raced>>

\* either publish call (member added, member already present) ends the call
Member_Publish(t) ==
    /\ tasks[t].pc \in {"atm_publish", "atm_republish"}
    /\ ~Fails(t)
    /\ LET tk == Logged(tasks[t], "addTeamMember", "publish",
                        tasks[t].atm.teamStory.id)
       IN /\ Publish(tk.atm.teamStory.id)
          /\ tasks' = [tasks EXCEPT ![t] = Return(tk, Null)]
    /\ UNCHANGED <<cache, scn, run, raced>>

-----------------------------------------------------------------------------
(* A request the store rejects (a 5xx answer, a timeout): the request has   *)
(* no effect on the store and the client's promise rejects.  What the task  *)
(* does next is decided by the catch block around the request.             *)

RootRequests == {"gfp_exact", "gfp_broad", "gfp_create"}

\* variant: getFundraisersParentId logs the error and returns nothing
RootErrorSwallowed(tk) == [tk EXCEPT !.pc = "gcf_exact"]

\* getFundraisersParentId's catch: log and rethrow
RootError(tk) == Throw(tk, "500")

PublishRequests ==
    {"cf_publish", "cf_unpublish", "st_publish", "st_unpublish",
     "atm_publish", "atm_republish"}

\* variant: a publish or unpublish error is thrown on
PublishErrorThrown(tk) == Throw(tk, "500")

\* catch (publishError), catch (unpublishError): log, and carry on with
\* what follows the publish step
PublishError(tk) ==
    CASE tk.pc \in {"st_publish", "st_unpublish"} ->
            Return(tk, [story |-> tk.st.story, action |-> tk.st.actionType])
      [] tk.pc \in {"cf_publish", "cf_unpublish"} -> AfterPublish(tk)
      [] tk.pc \in {"atm_publish", "atm_republish"} -> Return(tk, Null)

\* requests under a catch that rethrows, or under no catch but the
\* function's own, which rethrows
Rethrown ==
    {"gcf_exact", "gcf_broad", "gcf_create", "gcf_createTeam", "gcf_retry",
     "st_write", "sf_checkExisting", "cf_write", "atm_fetch", "atm_put"}

OnError(tk) ==
    CASE tk.pc \in RootRequests -> RootError(tk)
      [] tk.pc \in Rethrown -> Throw(tk, "500")
      \* getOrCreateEventsFolder, createEventStory and
      \* updateCampaignEventReference log the error and return null
      [] tk.pc \in {"gef_list", "gef_create", "ces_post", "ucr_put"} ->
            Return(tk, Null)
      \* findTeamFolder returns null, which syncTeam turns into an error
      [] tk.pc = "st_findTeamFolder" -> Throw(tk, "Team folder not found")
      \* "Team doesn't exist"
      [] tk.pc = "st_lookup" -> [tk EXCEPT !.pc = "st_findEvent"]
      \* findEventStory returns null: the event is created
      [] tk.pc = "st_findEvent" ->
            createEventStory(tk, tk.st.teamData.campaign,
                             tk.st.campaignFolder, "st_event")
      [] tk.pc = "sf_findEvent" ->
            createEventStory(tk, tk.sf.fundraiserData.campaign,
                             tk.sf.campaignFolder, "sf_event")
      [] tk.pc = "scf_findEvent" ->
            createEventStory(tk, tk.ev.campaignName, tk.ev.campaignFolder,
                             "scf_event")
      [] tk.pc \in PublishRequests -> PublishError(tk)
      \* "Fundraiser doesn't exist"
      [] tk.pc = "cf_lookup" ->
            [tk EXCEPT !.pc = IF tk.sf.teamData # Null THEN "cf_findTeam"
                              ELSE "cf_write"]
      \* findTeamStory returns null: the minimal team is synced
      [] tk.pc = "cf_findTeam" ->
            syncTeam(tk, minimalTeamData(tk.sf.teamData, tk.sf.fundraiserData),
                     "profile.created", "cf_team")
      \* findTeamStory returns null: addTeamMember warns and returns
      [] tk.pc = "atm_find" -> Return(tk, Null)

Rejected(t) ==
    /\ tasks[t].pc \notin {"idle", "done"}
    /\ Fails(t)
    /\ tasks' = [tasks EXCEPT ![t] =
                   OnError(Logged(tasks[t], tasks[t].pc, "rejected", NoId))]
    /\ UNCHANGED <<stories, cache, scn, run, raced>>

-----------------------------------------------------------------------------
(* BulkImporter: profiles and the data extracted from them *)

DefaultCampaign ==
    <<"D","e","f","a","u","l","t"," ","C","a","m","p","a","i","g","n">>

isTeamProfile(profile) ==
    profile.type = "GROUP" /\ ~profile.isCampaignProfile

RECURSIVE findCampaignFromParent(_)
findCampaignFromParent(parent) ==
    IF parent = Null THEN DefaultCampaign
    ELSE IF parent.isCampaignProfile THEN parent.name
    ELSE IF parent.parent # Null THEN findCampaignFromParent(parent.parent)
    ELSE IF parent.name # <<>> THEN parent.name
    ELSE DefaultCampaign

\* the JavaScript values an amount field of the feed holds: a number, NaN,
\* or null
Num(n) == [num |-> n]
NaN == [nan |-> TRUE]

\* !amount || isNaN(amount)
NoAmount(amount) == amount = Null \/ amount = NaN \/ amount = Num(0)

\* raiselyProfile.goal || raiselyProfile.target || ... || 0, for a profile
\* that carries the amount in goal and total only
OrZero(amount) == IF NoAmount(amount) THEN Num(0) ELSE amount

\* variant: the amount is taken as it is, in minor units
normalizeAmountUndivided(amount) ==
    IF NoAmount(amount) THEN Zero
    ELSE [units |-> amount.num, hundredths |-> 0]

\* pence to pounds, two decimals: parseFloat((amount / 100).toFixed(2)),
\* exact for a whole number of pence
normalizeAmount(amount) ==
    IF NoAmount(amount) THEN Zero
    ELSE [units |-> amount.num \div 100, hundredths |-> amount.num % 100]

\* path.split('/')[0], for a path with more than one part
FirstSegment(path) ==
    IF path = <<>> \/ Head(path) = "/" THEN <<>>
    ELSE LET k == CHOOSE i \in 1..Len(path) :
                      path[i] = "/" /\ \A j \in 1..(i - 1) : path[j] # "/"
         IN SubSeq(path, 1, k - 1)

\* variant: the chain is not walked, the parent's name is the campaign
extractCampaignNameFromParent(raiselyProfile) ==
    IF raiselyProfile.campaign # Null THEN raiselyProfile.campaign.name
    ELSE IF raiselyProfile.parent # Null THEN raiselyProfile.parent.name
    ELSE IF "/" \in Range(raiselyProfile.path)
         THEN FirstSegment(raiselyProfile.path)
    ELSE DefaultCampaign

\* extractFundraiserData and extractTeamData: campaignName.  A profile's own
\* campaign field comes first, then the parent chain, then the path
extractCampaignName(raiselyProfile) ==
    IF raiselyProfile.campaign # Null THEN raiselyProfile.campaign.name
    ELSE IF raiselyProfile.parent # Null
         THEN findCampaignFromParent(raiselyProfile.parent)
    ELSE IF "/" \in Range(raiselyProfile.path)
         THEN FirstSegment(raiselyProfile.path)
    ELSE DefaultCampaign

\* variant: the required-field checks are left out
extractFundraiserDataUnchecked(raiselyProfile) ==
    [name |-> raiselyProfile.name,
     campaign |-> extractCampaignName(raiselyProfile),
     description |-> raiselyProfile.description,
     targetAmount |-> normalizeAmount(OrZero(raiselyProfile.goal)),
     raisedAmount |-> normalizeAmount(OrZero(raiselyProfile.total)),
     profileUrl |-> raiselyProfile.path,
     raiselyId |-> raiselyProfile.uuid,
     path |-> raiselyProfile.path,
     status |-> IF raiselyProfile.status = "" THEN "DRAFT"
                ELSE raiselyProfile.status]

\* extractFundraiserData and extractTeamData build the same record
extractFundraiserData(raiselyProfile) ==
    IF raiselyProfile.name = <<>> \/ raiselyProfile.path = <<>> THEN Null
    ELSE [name |-> raiselyProfile.name,
          campaign |-> extractCampaignName(raiselyProfile),
          description |-> raiselyProfile.description,
          targetAmount |-> normalizeAmount(OrZero(raiselyProfile.goal)),
          raisedAmount |-> normalizeAmount(OrZero(raiselyProfile.total)),
          profileUrl |-> raiselyProfile.path,
          raiselyId |-> raiselyProfile.uuid,
          path |-> raiselyProfile.path,
          status |-> IF raiselyProfile.status = "" THEN "DRAFT"
                     ELSE raiselyProfile.status]

extractTeamData(raiselyProfile) == extractFundraiserData(raiselyProfile)

validateFundraiserData(data) ==
    IF data.name = <<>> \/ data.campaign = <<>> \/ data.path = <<>>
          \/ data.raiselyId = <<>>
    THEN Null ELSE data

hasTeamParent(profile) ==
    profile.parent # Null /\ isTeamProfile(profile.parent)

\* processProfile's teamData for an individual
parentTeamData(profile) ==
    IF hasTeamParent(profile)
    THEN [name |-> profile.parent.name, path |-> profile.parent.path]
    ELSE Null

Skipped(tk) == [tk EXCEPT !.pc = "done", !.status = "skipped"]

\* [DRY RUN] Would process: counted as processed, nothing is sent
WouldProcess(tk) == [tk EXCEPT !.pc = "done", !.status = "done"]

\* variant: the dry-run option is not looked at
processProfileAlways(tk, profile, dryRun, forceUpdate) ==
    IF isTeamProfile(profile)
    THEN IF extractTeamData(profile) = Null THEN Skipped(tk)
         ELSE syncTeam(tk, extractTeamData(profile), "profile.created", "pp")
    ELSE IF extractFundraiserData(profile) = Null THEN Skipped(tk)
         ELSE IF validateFundraiserData(extractFundraiserData(profile)) = Null
              THEN Skipped(tk)
         ELSE syncFundraiser(tk, extractFundraiserData(profile),
                             "profile.created", parentTeamData(profile),
                             forceUpdate, "pp")

\* processProfile up to its first request
processProfile(tk, profile, dryRun, forceUpdate) ==
    IF isTeamProfile(profile)
    THEN IF extractTeamData(profile) = Null THEN Skipped(tk)
         ELSE IF dryRun THEN WouldProcess(tk)
         ELSE syncTeam(tk, extractTeamData(profile), "profile.created", "pp")
    ELSE IF extractFundraiserData(profile) = Null THEN Skipped(tk)
         ELSE IF validateFundraiserData(extractFundraiserData(profile)) = Null
              THEN Skipped(tk)
         ELSE IF dryRun THEN WouldProcess(tk)
         ELSE syncFundraiser(tk, extractFundraiserData(profile),
                             "profile.created", parentTeamData(profile),
                             forceUpdate, "pp")

-----------------------------------------------------------------------------
(* WebhookController: one webhook request, from the payload to the response *)

\* the campaign of a webhook profile: its own campaign object, else its
\* parent's name, else the first part of a path of more than one part
webhookCampaignName(profile) ==
    IF profile.campaign # Null THEN profile.campaign.name
    ELSE IF profile.parent # Null THEN profile.parent.name
    ELSE IF "/" \in Range(profile.path) THEN FirstSegment(profile.path)
    ELSE DefaultCampaign

\* variant: the controller converts as the importer does
webhookNormalizeAmountExact(amount) == normalizeAmount(amount)

\* WebhookController.normalizeAmount: above 1000 the amount is taken for
\* pence, Math.round(amount / 100); else it is taken as it is,
\* Math.round(amount)
webhookNormalizeAmount(amount) ==
    IF NoAmount(amount) THEN Zero
    ELSE IF amount.num > 1000
         THEN [units |-> (amount.num + 50) \div 100, hundredths |-> 0]
    ELSE [units |-> amount.num, hundredths |-> 0]

\* WebhookController.extractFundraiserData
webhookExtractFundraiserData(profile) ==
    IF profile.name = <<>> \/ profile.path = <<>> THEN Null
    ELSE [name |-> profile.name,
          campaign |-> webhookCampaignName(profile),
          description |-> profile.description,
          targetAmount |-> webhookNormalizeAmount(OrZero(profile.goal)),
          raisedAmount |-> webhookNormalizeAmount(OrZero(profile.total)),
          profileUrl |-> profile.path,
          raiselyId |-> profile.uuid,
          path |-> profile.path,
          status |-> IF profile.status = "" THEN "DRAFT" ELSE profile.status]

\* res.status(400): the payload is refused before any request to the store
BadRequest(tk) == [tk EXCEPT !.pc = "done", !.status = "refused"]

\* handleRaiselyWebhook up to its first request; the team data and
\* forceUpdate parameters of syncFundraiser take their defaults
handleRaiselyWebhook(tk, profile, eventType, label) ==
    IF webhookExtractFundraiserData(profile) = Null THEN BadRequest(tk)
    ELSE IF validateFundraiserData(webhookExtractFundraiserData(profile)) = Null
         THEN BadRequest(tk)
    ELSE syncFundraiser(tk, webhookExtractFundraiserData(profile), eventType,
                        Null, FALSE, label)

-----------------------------------------------------------------------------
(* The feed: one campaign, one team, three individuals *)

CampaignName == <<"R","u","n">>
TeamName == <<"T"," ","x">>
Statuses == {"ACTIVE", "DRAFT", "ARCHIVED"}
EventTypes == {"profile.created", "profile.updated"}

\* a team's path is chosen in Raisely: it may or may not be the slug of
\* the team's name
TeamPaths == {createSlug(TeamName), <<"t","x","2">>}

CampaignProfile ==
    [type |-> "GROUP", isCampaignProfile |-> TRUE, name |-> CampaignName,
     path |-> <<"r","u","n">>, uuid |-> <<"r","0">>, status |-> "ACTIVE",
     description |-> <<>>, goal |-> Num(0), total |-> Num(0),
     campaign |-> Null, parent |-> Null]

TeamProfile(path, status) ==
    [type |-> "GROUP", isCampaignProfile |-> FALSE, name |-> TeamName,
     path |-> path, uuid |-> <<"r","1">>, status |-> status,
     description |-> <<>>, goal |-> Num(50000), total |-> Num(1250),
     campaign |-> Null, parent |-> CampaignProfile]

Individual(letter, status, parent) ==
    [type |-> "INDIVIDUAL", isCampaignProfile |-> FALSE,
     name |-> <<letter>>, path |-> ToLowerCase(<<letter>>),
     uuid |-> <<"r", letter>>, status |-> status,
     description |-> <<>>, goal |-> Num(10000), total |-> Num(505),
     campaign |-> Null, parent |-> parent]

-----------------------------------------------------------------------------
(* Stores a run can start from *)

Grow(store, data) ==
    Append(store, Node(Len(store) + 1, ParentPathIn(store, data.parent_id), data))

EmptyStore == <<>>

\* what setupCampaignFolders leaves for CampaignName in an empty space:
\* root, campaign folder, Team folder, events folder, event, back-reference
SetupStore ==
    LET s1 == Grow(EmptyStore, fundraisersFolderData)
        s2 == Grow(s1, campaignFolderData(CampaignName, s1[Len(s1)].id))
        s3 == Grow(s2, teamFolderData(s2[Len(s2)]))
        s4 == Grow(s3, eventsFolderData)
        s5 == Grow(s4, eventStoryData(CampaignName, s4[Len(s4)]))
    IN [s5 EXCEPT ![Len(s2)].content =
           Spread(@, "events", <<s5[Len(s5)].uuid>>)]

MemberA == Uuid(101)
MemberB == Uuid(102)
MemberC == Uuid(103)
MemberD == Uuid(104)

\* SetupStore plus a published team with members [A, B], at the slug of its
\* name, and the published fundraiser c, not yet a member
WithTeamStore ==
    LET s == SetupStore
        campaignFolder == s[2]
        teamFolder == s[3]
        eventStory == s[5]
        team == teamStoryData(
                    extractTeamData(TeamProfile(createSlug(TeamName), "ACTIVE")),
                    teamFolder, eventStory, Null)
        s6 == Grow(s, [team EXCEPT !.content.team = <<MemberA, MemberB>>,
                                   !.published = TRUE])
        c == fundraiserStoryData(
                 extractFundraiserData(Individual("C", "ACTIVE", CampaignProfile)),
                 campaignFolder, eventStory, NoUuid)
    IN Grow(s6, [c EXCEPT !.published = TRUE])

\* SetupStore after setupCampaignFolders has also met the default campaign
DefaultSetupStore ==
    LET s == SetupStore
        s6 == Grow(s, campaignFolderData(DefaultCampaign, s[1].id))
        s7 == Grow(s6, teamFolderData(s6[Len(s6)]))
        s8 == Grow(s7, eventStoryData(DefaultCampaign, s[4]))
    IN [s8 EXCEPT ![Len(s6)].content =
           Spread(@, "events", <<s8[Len(s8)].uuid>>)]

\* a space that holds the fundraisers root and nothing else
RootStore == Grow(EmptyStore, fundraisersFolderData)

\* the root folder and, under it, a story that is not a folder at the slug
\* of the campaign: the slug is taken, and no lookup of a folder finds it
SquattedStore ==
    Grow(RootStore,
         [name |-> CampaignName, slug |-> createSlug(CampaignName),
          parent_id |-> RootStore[1].id, is_folder |-> FALSE,
          published |-> FALSE, content |-> [component |-> "page"]])

\* SetupStore and, under the campaign's folder, a folder left at the path
\* the fundraiser c is synced to
StaleFolderStore ==
    Grow(SetupStore,
         [name |-> <<"C">>, slug |-> <<"c">>,
          parent_id |-> SetupStore[2].id, is_folder |-> TRUE,
          published |-> FALSE, content |-> [component |-> "folder"]])

\* SetupStore with the event not yet referenced from the campaign's folder
UnlinkedStore ==
    [SetupStore EXCEPT ![2].content = Spread(@, "events", <<>>)]

StoreOf(name) ==
    CASE name = "Empty" -> EmptyStore
      [] name = "Unlinked" -> UnlinkedStore
      [] name = "StaleFolder" -> StaleFolderStore
      [] name = "Squatted" -> SquattedStore
      [] name = "Root" -> RootStore
      [] name = "Setup" -> SetupStore
      [] name = "SetupDefault" -> DefaultSetupStore
      [] name = "WithTeam" -> WithTeamStore

-----------------------------------------------------------------------------
(* Direct calls on the service: two calls, one after the other ("seq") or   *)
(* overlapping ("par")                                                      *)

NoCall ==
    [fn |-> "", campaignName |-> <<>>, teamName |-> <<>>,
     memberUuid |-> NoUuid, data |-> Null, eventType |-> "",
     teamData |-> Null, forceUpdate |-> FALSE, text |-> <<>>,
     profile |-> Null]

AddMember(memberUuid) ==
    [NoCall EXCEPT !.fn = "addTeamMember", !.teamName = TeamName,
                   !.campaignName = CampaignName, !.memberUuid = memberUuid]

SyncTeamCall(path, status) ==
    [NoCall EXCEPT !.fn = "syncTeam",
                   !.data = extractTeamData(TeamProfile(path, status)),
                   !.eventType = "profile.created"]

\* the webhook passes no team data; the bulk importer passes the parent's
SyncCall(path, status, eventType, withTeam, forceUpdate) ==
    LET profile == Individual("C", status, TeamProfile(path, "ACTIVE"))
    IN [NoCall EXCEPT !.fn = "syncFundraiser",
                      !.data = extractFundraiserData(profile),
                      !.eventType = eventType,
                      !.teamData = IF withTeam THEN parentTeamData(profile)
                                   ELSE Null,
                      !.forceUpdate = forceUpdate]

\* individual C, child of the team, synced with its parent's team data
MemberSync(path, status) ==
    SyncCall(path, status, "profile.updated", TRUE, FALSE)

FolderCall ==
    [NoCall EXCEPT !.fn = "getOrCreateCampaignFolder",
                   !.campaignName = CampaignName]

\* storyblokService.createSlug(text), called on its own
SlugCall(text) == [NoCall EXCEPT !.fn = "createSlug", !.text = text]

\* importer.extractFundraiserData(profile) and importer.extractTeamData(
\* profile), called on their own
ExtractCall(profile) ==
    [NoCall EXCEPT !.fn = "extractFundraiserData", !.profile = profile]

ExtractTeamCall(profile) ==
    [NoCall EXCEPT !.fn = "extractTeamData", !.profile = profile]

\* POST /webhook/raisely with the profile as data.data and the event type
WebhookCall(profile, eventType) ==
    [NoCall EXCEPT !.fn = "handleRaiselyWebhook", !.profile = profile,
                   !.eventType = eventType]

\* a synchronous call: it returns without a request
Returned(tk, rv) == [tk EXCEPT !.pc = "done", !.status = "done", !.result = rv]

Invoke(tk, call, label) ==
    CASE call.fn = "addTeamMember" ->
            addTeamMember(tk, call.teamName, call.campaignName,
                          call.memberUuid, label)
      [] call.fn = "syncTeam" ->
            syncTeam(tk, call.data, call.eventType, label)
      [] call.fn = "syncFundraiser" ->
            syncFundraiser(tk, call.data, call.eventType, call.teamData,
                           call.forceUpdate, label)
      [] call.fn = "getOrCreateCampaignFolder" ->
            getOrCreateCampaignFolder(tk, call.campaignName, label)
      [] call.fn = "setupCampaignFolders" ->
            setupCampaignFolders(tk, call.campaignName, label)
      [] call.fn = "createSlug" -> Returned(tk, createSlug(call.text))
      [] call.fn = "extractFundraiserData" ->
            Returned(tk, extractFundraiserData(call.profile))
      [] call.fn = "extractTeamData" ->
            Returned(tk, extractTeamData(call.profile))
      [] call.fn = "handleRaiselyWebhook" ->
            handleRaiselyWebhook(tk, call.profile, call.eventType, label)

StoreNames == {"Empty", "Setup", "WithTeam"}

\* faults: the requests the store rejects in this run, each named by the
\* task that issues it and the point of the code it is issued from;
\* dryRun: the importer's --dry-run option; type: its --type option ("" when
\* the option is not given); batchSize: its --batch-size option
Scenario(driver, mode, store, calls, profiles, forceUpdate) ==
    [driver |-> driver, mode |-> mode, store |-> store,
     calls |-> calls, profiles |-> profiles, forceUpdate |-> forceUpdate,
     faults |-> {}, dryRun |-> FALSE, type |-> "both",
     batchSize |-> BatchSize]

WithFaults(scenario, faults) == [scenario EXCEPT !.faults = faults]

\* the same run without the --type option
Unfiltered(scenario) == [scenario EXCEPT !.type = ""]

Pair(mode, store, first, second) ==
    Scenario("pair", mode, store, <<first, second>>, <<>>, FALSE)

SyncCalls(path) ==
    {SyncCall(path, status, eventType, withTeam, forceUpdate) :
        status \in Statuses, eventType \in EventTypes,
        withTeam \in BOOLEAN, forceUpdate \in BOOLEAN}

FirstSyncCalls(path) ==
    {SyncCall(path, status, "profile.updated", withTeam, FALSE) :
        status \in Statuses, withTeam \in BOOLEAN}

TeamCalls(path) == {SyncTeamCall(path, status) : status \in Statuses}

MemberCalls == {AddMember(MemberC), AddMember(MemberD)}

SequentialPairs(path) ==
    (MemberCalls \X MemberCalls)
    \cup (TeamCalls(path) \X TeamCalls(path))
    \cup (TeamCalls(path) \X MemberCalls)
    \cup (MemberCalls \X TeamCalls(path))
    \cup (FirstSyncCalls(path) \X SyncCalls(path))
    \cup (FirstSyncCalls(path) \X TeamCalls(path))
    \cup (TeamCalls(path) \X FirstSyncCalls(path))
    \cup {<<FolderCall, FolderCall>>}

OverlappingPairs(path) ==
    {<<AddMember(MemberC), AddMember(MemberD)>>,
     <<FolderCall, FolderCall>>}
    \cup (TeamCalls(path) \X {AddMember(MemberC)})

PairScenarios ==
    UNION {{Pair("seq", store, p[1], p[2]) :
               store \in StoreNames, p \in SequentialPairs(path)}
           \cup {Pair("par", store, p[1], p[2]) :
               store \in StoreNames, p \in OverlappingPairs(path)} :
           path \in TeamPaths}

\* two webhook deliveries handled at once: the sync of an individual and
\* the sync of a team of the same campaign, and two resolutions of the
\* campaign folder under an existing root
ActiveSync == SyncCall(createSlug(TeamName), "ACTIVE", "profile.updated",
                       FALSE, FALSE)

\* the team's profile after an edit in Raisely: a new description and a new
\* total
EditedTeamCall ==
    [NoCall EXCEPT !.fn = "syncTeam",
                   !.data = extractTeamData(
                                [TeamProfile(createSlug(TeamName), "ACTIVE")
                                    EXCEPT !.description = <<"n","e","w">>,
                                           !.total = Num(2000)]),
                   !.eventType = "profile.updated"]

RaceScenarios ==
    {Pair("par", "Root", FolderCall, FolderCall),
     Pair("seq", "Squatted", FolderCall, SlugCall(CampaignName)),
     Pair("par", "WithTeam", EditedTeamCall, AddMember(MemberC)),
     Pair("par", "WithTeam", AddMember(MemberC), AddMember(MemberC))}
    \cup {Pair("par", store, ActiveSync, SyncTeamCall(path, "ACTIVE")) :
             store \in {"Root"}, path \in TeamPaths}

\* the importer's setup of the campaign 'Run'
SetupCall ==
    [NoCall EXCEPT !.fn = "setupCampaignFolders",
                   !.campaignName = CampaignName]

\* the setup of a campaign, run twice, or followed or overlapped by the
\* sync of one of its fundraisers
SetupScenarios ==
    {Pair(mode, store, SetupCall, second) :
        mode \in {"seq", "par"}, store \in {"Root", "Unlinked", "Setup"},
        second \in {SetupCall, ActiveSync}}

\* the fundraiser c is synced to a path that a folder holds
StaleFolderScenarios ==
    {Pair("seq", "StaleFolder",
          SyncCall(createSlug(TeamName), "ACTIVE", eventType, FALSE, FALSE),
          SlugCall(CampaignName)) : eventType \in EventTypes}

\* the Team folder's create is rejected; a team sync follows
TeamFolderFaults ==
    {WithFaults(Pair("seq", store, FolderCall, SyncTeamCall(path, "ACTIVE")),
                {Fault(1, "gcf_createTeam")}) :
        store \in {"Empty", "Root"}, path \in TeamPaths}

\* the root folder cannot be resolved: its create, or one of its lookups,
\* is rejected for the first call
RootFaults ==
    {WithFaults(Pair("seq", store, first, FolderCall), {Fault(1, pc)}) :
        store \in {"Empty", "Setup"},
        first \in {ActiveSync, MemberSync(createSlug(TeamName), "ACTIVE")}
                     \cup TeamCalls(createSlug(TeamName)),
        pc \in RootRequests}

\* the team lookup of the first addTeamMember is rejected
LookupFaults ==
    {WithFaults(Pair("seq", store, AddMember(MemberC), AddMember(MemberD)),
                {Fault(1, "atm_find")}) : store \in StoreNames}

\* requests whose failure the code treats as secondary
SecondaryRequests == PublishRequests \cup {"ucr_put"}

\* the first call meets a rejected publish, unpublish or back-reference
\* patch: one of them, or all of them
SecondaryFaults ==
    UNION {{WithFaults(Pair("seq", store, first, FolderCall), faults) :
               store \in StoreNames,
               first \in FirstSyncCalls(path) \cup TeamCalls(path)
                            \cup {AddMember(MemberA), AddMember(MemberC)},
               faults \in {{Fault(1, pc) : pc \in SecondaryRequests}}
                            \cup {{Fault(1, pc)} : pc \in SecondaryRequests}} :
           path \in TeamPaths}

\* texts to slug: a capital, a small letter, a digit, a blank, a hyphen and
\* a character the slug drops, in every arrangement up to MaxTextLen
MaxTextLen == 4
TextChars == {"A", "b", "7", " ", "-", "!"}
Texts == UNION {[1..n -> TextChars] : n \in 0..MaxTextLen}

\* createSlug of a text, then createSlug of the slug
SlugScenarios ==
    {Pair("seq", "Empty", SlugCall(text), SlugCall(createSlug(text))) :
        text \in Texts}

\* the caller issues call t; in "seq" the previous call has settled
Call(t) ==
    /\ scn.driver = "pair"
    /\ t \in 1..Len(scn.calls)
    /\ tasks[t].pc = "idle"
    /\ scn.mode = "seq" => \A u \in 1..(t - 1) : tasks[u].pc = "done"
    /\ tasks' = [tasks EXCEPT ![t] =
                   Invoke([tasks[t] EXCEPT !.status = "running"],
                          scn.calls[t], "top")]
    /\ UNCHANGED <<stories, cache, scn, run, raced>>

-----------------------------------------------------------------------------
(* BulkImporter.processBatch *)

Min(S) == CHOOSE x \in S : \A y \in S : x <= y

\* BulkImporter.run: the lists it hands to processBatch, one after the
\* other, each a list of positions in the filtered profile list
Positions == [k \in 1..Len(scn.profiles) |-> k]

IsTeamAt(k) == isTeamProfile(scn.profiles[k])
IsIndividualAt(k) == ~isTeamProfile(scn.profiles[k])
NonEmpty(list) == list # <<>>

\* variant: one list in feed order, whatever the filter
processingPlanUnsplit(typeFilter) == <<Positions>>

\* no type filter: the teams, then the others; a type filter: the list as
\* filterProfiles left it
processingPlan(typeFilter) ==
    IF typeFilter = ""
    THEN SelectSeq(<<SelectSeq(Positions, IsTeamAt),
                     SelectSeq(Positions, IsIndividualAt)>>, NonEmpty)
    ELSE <<Positions>>

\* the list the current processBatch call works on
Part == processingPlan(scn.type)[run.part]

\* Array.prototype.slice's reading of an index: a negative one counts from
\* the end, and either is kept within the list
SliceIndex(n, len) ==
    IF n < 0 THEN (IF len + n < 0 THEN 0 ELSE len + n)
    ELSE IF n > len THEN len ELSE n

\* variant: the slice stops one short
BatchShort(i) ==
    {Part[j] : j \in {n \in 1..Len(Part) :
                        /\ SliceIndex(i, Len(Part)) < n
                        /\ n < SliceIndex(i + scn.batchSize, Len(Part))}}

\* profiles.slice(i, i + batchSize), as positions in the filtered list
Batch(i) ==
    {Part[j] : j \in {n \in 1..Len(Part) :
                        /\ SliceIndex(i, Len(Part)) < n
                        /\ n <= SliceIndex(i + scn.batchSize, Len(Part))}}

\* i += batchSize; below -profiles.length every value of i gives the same
\* empty slice and the same loop test, and the counter is kept there
NextIndex(i) ==
    IF i + scn.batchSize < 0 - Len(Part) THEN 0 - Len(Part)
    ELSE i + scn.batchSize

isTeamMember(profile) == ~isTeamProfile(profile) /\ hasTeamParent(profile)

teamKey(profile) == profile.parent.name \o <<Hyphen>> \o profile.parent.path

individualsWithoutTeams(i) ==
    {k \in Batch(i) : ~isTeamMember(scn.profiles[k])}

teamMembers(i) == {k \in Batch(i) : isTeamMember(scn.profiles[k])}

\* Map insertion order: a group is ranked by its first member in the batch
groupRank(i, k) ==
    Min({j \in teamMembers(i) :
            teamKey(scn.profiles[j]) = teamKey(scn.profiles[k])})

\* the nested for loops: groups in insertion order, members in batch order
Precedes(i, j, k) ==
    \/ groupRank(i, j) < groupRank(i, k)
    \/ groupRank(i, j) = groupRank(i, k) /\ j < k

pendingMembers(i) == {k \in teamMembers(i) : tasks[k].pc = "idle"}

\* variant: every waiting member of the batch at once
nextMembersAll(i) == pendingMembers(i)

\* the member the loops reach next
nextMembers(i) ==
    {k \in pendingMembers(i) :
        \A j \in pendingMembers(i) : j = k \/ Precedes(i, k, j)}

Launch(S) ==
    [t \in TaskIds |->
        IF t \in S
        THEN processProfile([tasks[t] EXCEPT !.status = "running",
                                             !.calls = @ + 1],
                            scn.profiles[t], scn.dryRun, scn.forceUpdate)
        ELSE tasks[t]]

\* the awaited processProfile promises have fulfilled; a rejected one would
\* make the await throw and end the run (run's catch exits the process)
Settled(S) ==
    \A k \in S : tasks[k].pc = "done" /\ tasks[k].status # "failed"

\* BulkImporter.stats.errors and BulkImporter.errors, as processProfile's
\* catch has filled them so far
statsErrors == Cardinality({t \in TaskIds : tasks[t].status = "errored"})

errors ==
    {[profile |-> scn.profiles[t].name, error |-> tasks[t].error] :
        t \in {u \in TaskIds : tasks[u].status = "errored"}}

\* a loop iteration begins: grouping, then Promise.all over the parallel
\* group, or straight to the first member when that group is empty
Batch_Start ==
    /\ scn.driver = "bulk"
    /\ run.phase = "start"
    /\ IF individualsWithoutTeams(run.i) # {}
       THEN /\ tasks' = Launch(individualsWithoutTeams(run.i))
            /\ run' = [run EXCEPT !.phase = "parallel"]
       ELSE /\ tasks' = Launch(nextMembers(run.i))
            /\ run' = [run EXCEPT !.phase = "members"]
    /\ UNCHANGED <<stories, cache, scn, raced>>

\* the awaited work has settled: the next team member starts
Batch_Member ==
    /\ scn.driver = "bulk"
    /\ run.phase \in {"parallel", "members"}
    /\ Settled({k \in Batch(run.i) : tasks[k].pc # "idle"})
    /\ pendingMembers(run.i) # {}
    /\ tasks' = Launch(nextMembers(run.i))
    /\ run' = [run EXCEPT !.phase = "members"]
    /\ UNCHANGED <<stories, cache, scn, raced>>

\* the batch is finished: wait, then the next batch; after the last batch
\* processBatch returns and run goes on to its next list, or to the summary
Batch_Next ==
    /\ scn.driver = "bulk"
    /\ run.phase \in {"parallel", "members"}
    /\ Settled(Batch(run.i))
    /\ run' = IF NextIndex(run.i) < Len(Part)
              THEN [run EXCEPT !.i = NextIndex(run.i), !.phase = "start"]
              ELSE IF run.part < Len(processingPlan(scn.type))
              THEN [i |-> 0, phase |-> "start", part |-> run.part + 1]
              ELSE [run EXCEPT !.phase = "finished"]
    /\ UNCHANGED <<stories, cache, tasks, scn, raced>>

TeamX(path) == TeamProfile(path, "ACTIVE")

\* the feed's profiles for one team path and one status of individual C
Feed(path, status) ==
    {TeamX(path),
     Individual("C", status, TeamX(path)),
     Individual("D", "ACTIVE", TeamX(path)),
     Individual("E", "ACTIVE", CampaignProfile)}

Lists(S) ==
    {l \in [1..MaxProfiles -> S] : \A j, k \in 1..MaxProfiles : l[j] = l[k] => j = k}

BulkScenarios ==
    {Scenario("bulk", "batch", store, <<>>, l, forceUpdate) :
        store \in {"Setup", "WithTeam"},
        l \in UNION {Lists(Feed(path, status)) :
                        path \in TeamPaths, status \in {"ACTIVE", "DRAFT"}},
        forceUpdate \in BOOLEAN}

FaultScenarios ==
    TeamFolderFaults \cup RootFaults \cup LookupFaults \cup SecondaryFaults

\* a bulk run in which the store rejects the leaf write of one profile
BulkFaults ==
    {WithFaults(Scenario("bulk", "batch", "Setup", <<>>, l, FALSE),
                {Fault(t, "cf_write"), Fault(t, "st_write")}) :
        l \in UNION {Lists(Feed(path, "ACTIVE")) : path \in TeamPaths},
        t \in TaskIds}

\* run({dryRun: true}): setupCampaignFolders is not called, so the run
\* starts from the space as it is
DryRuns ==
    {[Scenario("bulk", "batch", store, <<>>, l, forceUpdate)
         EXCEPT !.dryRun = TRUE] :
        store \in StoreNames,
        l \in UNION {Lists(Feed(path, "ACTIVE")) : path \in TeamPaths},
        forceUpdate \in BOOLEAN}

\* profiles of the export that lack a required field
Nameless(path) == [TeamProfile(path, "ACTIVE") EXCEPT !.name = <<>>]

Pathless == [Individual("F", "ACTIVE", CampaignProfile) EXCEPT !.path = <<>>]

Unusable(path) == {Nameless(path), Pathless}

\* lists in which at least one profile lacks its name or its path
UnusableRuns ==
    {Scenario("bulk", "batch", "Setup", <<>>, l, FALSE) :
        l \in UNION {{m \in Lists(Feed(path, "ACTIVE") \cup Unusable(path)) :
                         \E k \in 1..MaxProfiles : m[k] \in Unusable(path)} :
                     path \in TeamPaths}}

\* profiles of an export by the chain above them: a campaign under the
\* campaign, a group that is no team's child, a group without a name
SubCampaign ==
    [CampaignProfile EXCEPT !.name = <<"S","u","b">>, !.path = <<"s","u","b">>,
                            !.uuid = <<"r","2">>, !.parent = CampaignProfile]

OrphanTeam == [TeamX(createSlug(TeamName)) EXCEPT !.parent = Null]

NamelessGroup == [OrphanTeam EXCEPT !.name = <<>>, !.uuid = <<"r","3">>]

\* the campaign object a profile may carry
OwnCampaign == [name |-> <<"O","w","n">>]

\* individual G under each chain, with a one-part and a two-part path, and
\* once with a campaign field of its own
Descendants ==
    {[Individual("G", "ACTIVE", parent) EXCEPT !.path = path,
                                                !.campaign = campaign] :
        parent \in {Null, CampaignProfile, SubCampaign,
                    TeamX(createSlug(TeamName)), OrphanTeam, NamelessGroup,
                    [OrphanTeam EXCEPT !.parent = NamelessGroup],
                    [TeamX(createSlug(TeamName)) EXCEPT !.parent = SubCampaign]},
        path \in {<<"g">>, <<"r","u","n","/","g">>},
        campaign \in {Null, OwnCampaign}}

Groups ==
    {TeamX(createSlug(TeamName)), OrphanTeam,
     [OrphanTeam EXCEPT !.path = <<"r","u","n","/","t">>],
     [TeamX(createSlug(TeamName)) EXCEPT !.parent = SubCampaign]}

\* extractFundraiserData of an individual, extractTeamData of a team
DerivationScenarios ==
    {Pair("seq", "Empty", ExtractCall(profile), ExtractTeamCall(group)) :
        profile \in Descendants, group \in Groups}

\* the amounts a profile of the feed carries in goal and total
Amounts == {<<Null, NaN>>, <<Num(0), Num(1050)>>, <<Num(500), Num(15000)>>,
            <<Num(15000), Num(500)>>}

WithAmounts(profile, amounts) ==
    [profile EXCEPT !.goal = amounts[1], !.total = amounts[2]]

\* three individuals of the campaign and the team, each with amounts of its
\* own
Donors ==
    {WithAmounts(Individual("H", "ACTIVE", CampaignProfile), <<Null, NaN>>),
     WithAmounts(Individual("I", "ACTIVE", CampaignProfile), <<Num(0), Num(1050)>>),
     WithAmounts(Individual("J", "DRAFT", CampaignProfile), <<Num(500), Num(15000)>>),
     WithAmounts(TeamX(createSlug(TeamName)), <<Num(15000), Num(500)>>)}

AmountRuns ==
    {Scenario("bulk", "batch", "Setup", <<>>, l, FALSE) : l \in Lists(Donors)}

\* a webhook for a new profile, then a webhook for the profile's update
WebhookScenarios ==
    {Pair("seq", "Setup",
          WebhookCall(WithAmounts(profile, created), "profile.created"),
          WebhookCall(WithAmounts(profile, updated), "profile.updated")) :
        profile \in {Individual("E", "ACTIVE", CampaignProfile),
                     Individual("E", "ACTIVE", NamelessGroup), Pathless},
        created \in Amounts, updated \in Amounts}

\* --type=both on a space that holds the root folder only: run calls
\* processBatch on the whole export, and setupCampaignFolders is not called;
\* the export begins with individual E
UnpreparedRuns ==
    {Scenario("bulk", "batch", "Root", <<>>, l, FALSE) :
        l \in {m \in Lists({TeamX(createSlug(TeamName)),
                            Individual("D", "ACTIVE", TeamX(createSlug(TeamName))),
                            Individual("E", "ACTIVE", CampaignProfile),
                            Individual("G", "ACTIVE", CampaignProfile)}) :
                  m[1] = Individual("E", "ACTIVE", CampaignProfile)}}

\* runs with a --batch-size of their own: parseInt(value) || 5 lets every
\* integer but 0 through, a negative one included
BatchSizes == {0 - 1, 1, MaxProfiles}

BatchSizeRuns ==
    {[Scenario("bulk", "batch", "Setup", <<>>, l, FALSE)
         EXCEPT !.batchSize = b] :
        b \in BatchSizes,
        l \in {m \in Lists(Feed(createSlug(TeamName), "ACTIVE")) :
                  m[1] = TeamX(createSlug(TeamName))}}

\* a run without the --type option, over the feed: the teams are synced
\* first, then the individuals
SplitRuns ==
    {Unfiltered(Scenario("bulk", "batch", store, <<>>, l, FALSE)) :
        store \in {"Setup", "WithTeam"},
        l \in UNION {Lists(Feed(path, "ACTIVE")) : path \in TeamPaths}}

\* the export also holds the campaign's own profile
CampaignRuns ==
    {Unfiltered(Scenario("bulk", "batch", "SetupDefault", <<>>, l, FALSE)) :
        l \in Lists({CampaignProfile, TeamX(createSlug(TeamName)),
                     Individual("D", "ACTIVE", TeamX(createSlug(TeamName))),
                     Individual("E", "ACTIVE", CampaignProfile)})}

\* run calls setupCampaignFolders before processBatch unless the run is a
\* dry run or --type is neither 'teams' nor 'individuals'; the store a run
\* starts from here is the store setupCampaignFolders has left
SetupDone == scn.driver = "bulk" /\ ~scn.dryRun /\ scn.type # "both"

Scenarios ==
    BatchSizeRuns \cup SetupScenarios \cup StaleFolderScenarios \cup SplitRuns
        \cup CampaignRuns \cup DerivationScenarios \cup AmountRuns
        \cup WebhookScenarios \cup UnpreparedRuns \cup
    PairScenarios \cup RaceScenarios \cup BulkScenarios \cup FaultScenarios
        \cup BulkFaults \cup DryRuns \cup UnusableRuns \cup SlugScenarios

-----------------------------------------------------------------------------

Init ==
    /\ scn \in Scenarios
    /\ stories = StoreOf(scn.store)
    /\ cache = IF SetupDone THEN FundraisersFolder.id ELSE NoId
    /\ tasks = [t \in TaskIds |-> IdleTask]
    /\ run = [i |-> 0, part |-> 1,
              phase |-> IF scn.driver = "bulk" THEN "start" ELSE "direct"]
    /\ raced = FALSE

InFlight(t) == tasks[t].pc \notin {"idle", "done"}

Step(t) ==
    \/ Root_Exact(t) \/ Root_Broad(t) \/ Root_Create(t)
    \/ Campaign_Exact(t) \/ Campaign_Broad(t) \/ Campaign_Create(t)
    \/ Campaign_CreateTeam(t) \/ Campaign_Retry(t)
    \/ Events_List(t) \/ Events_Create(t) \/ Event_Post(t)
    \/ Campaign_PutEvent(t) \/ Setup_FindEvent(t)
    \/ Team_FindTeamFolder(t) \/ Team_Lookup(t) \/ Team_FindEvent(t)
    \/ Team_Write(t) \/ Team_Publish(t) \/ Team_Unpublish(t)
    \/ Sync_FindEvent(t) \/ Sync_CheckExisting(t)
    \/ Upsert_Lookup(t) \/ Upsert_FindTeam(t) \/ Upsert_Write(t)
    \/ Upsert_Publish(t) \/ Upsert_Unpublish(t)
    \/ Member_Find(t) \/ Member_Fetch(t) \/ Member_Put(t) \/ Member_Publish(t)

Next ==
    \/ \E t \in TaskIds : Call(t)
    \/ Batch_Start
    \/ Batch_Member
    \/ Batch_Next
    \/ \E t \in TaskIds : Step(t)
    \/ \E t \in TaskIds : Rejected(t)

Spec == Init /\ [][Next]_vars

\* the runs followed to their end: the bulk runs of every batch size and of
\* an unprepared space, and direct calls that reach the remaining code
LiveScenarios ==
    BatchSizeRuns \cup UnpreparedRuns \cup SetupScenarios \cup RaceScenarios
        \cup FaultScenarios

LiveInit == Init /\ scn \in LiveScenarios

\* every request is answered and the event loop runs the continuation that
\* waits for it: no call stays in flight for ever
CallsReturn == \A t \in TaskIds : []<>(~InFlight(t))

\* the importer's own steps are taken when they can be: the event loop runs
\* every continuation that is ready
FairSpec ==
    /\ LiveInit /\ [][Next]_vars
    /\ WF_vars(Batch_Start) /\ WF_vars(Batch_Member) /\ WF_vars(Batch_Next)
    /\ CallsReturn

-----------------------------------------------------------------------------
(* Observations on a run *)

MemberSet(story) == Range(Get(story.content, "team", <<>>))

IsTeamNode(story) ==
    ~story.is_folder /\ Get(story.content, "is_team", FALSE) = TRUE

\* the team story addTeamMember resolves for TeamName
TeamByName == findTeamStory(TeamName, CampaignName)

\* the team story syncTeam writes for a team profile with this path
TeamByPath(path) ==
    FirstWithSlug(CampaignPath(createSlug(CampaignName)) \o Slash \o TeamSlug
                      \o Slash \o path)

\* the node of individual C
FundraiserC ==
    FirstWithSlug(CampaignPath(createSlug(CampaignName)) \o Slash \o <<"c">>)

Finished(t) == tasks[t].pc = "done"
Resolved(t) == tasks[t].status = "done"

\* a run in which the store answers every request
Faultless == scn.faults = {}

PairRun(mode) == scn.driver = "pair" /\ scn.mode = mode /\ Faultless

\* a bulk run that writes, against a store that answers every request
BulkRun == scn.driver = "bulk" /\ Faultless /\ ~scn.dryRun

Requests(t, fn, op) ==
    {k \in 1..Len(tasks[t].log) :
        tasks[t].log[k].fn = fn /\ tasks[t].log[k].op = op}

Creates(t) == {k \in 1..Len(tasks[t].log) : tasks[t].log[k].op = "post"}

-----------------------------------------------------------------------------
(* Team membership *)

C1_Case ==
    /\ PairRun("seq")
    /\ scn.store = "WithTeam"
    /\ scn.calls \in {<<AddMember(MemberC), AddMember(MemberD)>>,
                      <<AddMember(MemberD), AddMember(MemberC)>>}
    /\ Finished(1) /\ Finished(2)

\* C1: from a team whose member list is [A, B], addTeamMember for C and for
\* D, the second called after the first has returned, both return and leave
\* the team's member list equal, as a set, to {A, B, C, D}.
C1_SequentialMerges ==
    C1_Case =>
        /\ Resolved(1) /\ Resolved(2)
        /\ MemberSet(TeamByName) = {MemberA, MemberB, MemberC, MemberD}

C1_Witness ==
    /\ C1_Case
    /\ MemberSet(TeamByName) = {MemberA, MemberB, MemberC, MemberD}
    /\ Requests(2, "addTeamMember", "put") # {}

C2_Case ==
    /\ PairRun("par")
    /\ scn.store = "WithTeam"
    /\ scn.calls = <<AddMember(MemberC), AddMember(MemberD)>>
    /\ raced
    /\ Finished(1) /\ Finished(2)

\* C2: when addTeamMember for C and addTeamMember for D overlap so that
\* both have re-fetched the team before either writes back, both calls
\* return and the final member list keeps A and B but holds only one of C
\* and D: the other append is lost.
C2_LostUpdate ==
    C2_Case =>
        /\ Resolved(1) /\ Resolved(2)
        /\ {MemberA, MemberB} \subseteq MemberSet(TeamByName)
        /\ Cardinality(MemberSet(TeamByName) \cap {MemberC, MemberD}) = 1

C2_Witness ==
    /\ C2_Case
    /\ MemberC \notin MemberSet(TeamByName)
    /\ MemberD \in MemberSet(TeamByName)

NoShrink ==
    \A id \in StoryIds :
        IsTeamNode(stories[id]) =>
            MemberSet(stories[id]) \subseteq MemberSet(stories'[id])

\* C3 as stated: a team node's member list never shrinks, after any
\* sequence or interleaving of syncTeam and addTeamMember calls.
C3_NeverShrinks == [][NoShrink]_vars

\* C3 amended: a team node's member list never shrinks as long as the calls
\* that write the team do not overlap (calls issued one after the other,
\* and the bulk importer's dispatch).
C3_NeverShrinksSequenced == [][scn.mode # "par" => NoShrink]_vars

C3_Witness ==
    /\ PairRun("seq")
    /\ scn.store = "WithTeam"
    /\ \E status \in Statuses :
          scn.calls = <<AddMember(MemberC),
                        SyncTeamCall(createSlug(TeamName), status)>>
    /\ Resolved(1) /\ Resolved(2)
    /\ tasks[2].result.action = "updated"
    /\ MemberSet(TeamByName) = {MemberA, MemberB, MemberC}

-----------------------------------------------------------------------------
(* Bulk dispatch *)

SameTeam(j, k) ==
    /\ j \in 1..Len(scn.profiles) /\ k \in 1..Len(scn.profiles)
    /\ isTeamMember(scn.profiles[j]) /\ isTeamMember(scn.profiles[k])
    /\ teamKey(scn.profiles[j]) = teamKey(scn.profiles[k])

\* C4: in a bulk run no two processProfile calls for individuals of the
\* same team are in flight together, and an individual of a team is not
\* started before every earlier individual of that team in the list has
\* been processed.
C4_TeamMembersOneAtATime ==
    scn.driver = "bulk" =>
        \A j, k \in TaskIds :
            (j < k /\ SameTeam(j, k)) =>
                /\ ~(InFlight(j) /\ InFlight(k))
                /\ tasks[k].pc # "idle" => Finished(j)

C4_Witness ==
    /\ scn.driver = "bulk"
    /\ \E j, k \in TaskIds :
          /\ j < k /\ k <= BatchSize /\ SameTeam(j, k)
          /\ Finished(j) /\ InFlight(k)

-----------------------------------------------------------------------------
(* Team linkage of an individual *)

LinkedAt(path) ==
    /\ TeamByPath(path) # Null
    /\ FundraiserC # Null
    /\ FundraiserC.uuid \in MemberSet(TeamByPath(path))

\* C5: syncing an individual of a team before the team profile, and then
\* the team profile, ends like syncing the team first and the individual
\* second: the team node exists and the individual's node UUID is in its
\* member list.
C5_OrderIndependent ==
    \A path \in TeamPaths, s1, s2 \in Statuses :
        (/\ PairRun("seq")
         /\ scn.store = "Setup"
         /\ scn.calls \in {<<MemberSync(path, s1), SyncTeamCall(path, s2)>>,
                           <<SyncTeamCall(path, s2), MemberSync(path, s1)>>}
         /\ Finished(1) /\ Finished(2))
        => (Resolved(1) /\ Resolved(2) /\ LinkedAt(path))

\* the second of two calls is syncFundraiser('profile.created') for a
\* fundraiser the first call left at its full path
C6_Case(second) ==
    /\ PairRun("seq")
    /\ scn.store = "Setup"
    /\ scn.calls[1] \in UNION {FirstSyncCalls(path) : path \in TeamPaths}
    /\ scn.calls[2] = second
    /\ second.fn = "syncFundraiser"
    /\ second.eventType = "profile.created"
    /\ Finished(1) /\ Finished(2)

InSomeTeam(uuid) ==
    \E id \in StoryIds :
        /\ IsTeamNode(stories[id])
        /\ stories[id].name = TeamName
        /\ uuid \in MemberSet(stories[id])

\* C6: syncFundraiser('profile.created') for a fundraiser whose full path
\* exists returns 'found' and writes nothing to the node when forceUpdate
\* is false, updates the node when forceUpdate is true, and in both cases,
\* when team data is supplied, the fundraiser's UUID is in the team's
\* member list when the call returns.
C6_FoundOrForced ==
    \A second \in UNION {SyncCalls(path) : path \in TeamPaths} :
        C6_Case(second) =>
            /\ Resolved(2)
            /\ ~second.forceUpdate =>
                  /\ tasks[2].result.action = "found"
                  /\ Requests(2, "createOrUpdateFundraiser", "put") = {}
            /\ second.forceUpdate =>
                  /\ tasks[2].result.action = "updated"
                  /\ Requests(2, "createOrUpdateFundraiser", "put") # {}
            /\ second.teamData # Null => InSomeTeam(tasks[2].result.story.uuid)

-----------------------------------------------------------------------------
(* Publish state *)

\* two syncs of individual C in a row: Active, then Draft
C7_PairCase(second) ==
    /\ PairRun("seq")
    /\ scn.calls[1] \in UNION {FirstSyncCalls(path) : path \in TeamPaths}
    /\ scn.calls[1].data.status = "ACTIVE"
    /\ scn.calls[2] = second
    /\ second.fn = "syncFundraiser"
    /\ second.data.status = "DRAFT"
    /\ Finished(1)
    /\ tasks[1].result.action = "created"

\* a bulk run that meets the published node of C with status Draft
C7_BulkCase(k) ==
    /\ BulkRun
    /\ scn.store = "WithTeam"
    /\ k \in 1..Len(scn.profiles)
    /\ scn.profiles[k].name = <<"C">>
    /\ scn.profiles[k].status = "DRAFT"

\* C7 as stated: a node created by a sync with status Active ends
\* published, and the same node synced again with status Draft ends
\* unpublished, whichever entry point and event type delivers the second
\* sync (bulk import, 'profile.created', 'profile.updated').
C7_DraftEndsUnpublished ==
    /\ \A second \in UNION {SyncCalls(path) : path \in TeamPaths} :
          C7_PairCase(second) =>
              /\ tasks[2].pc = "idle" => FundraiserC.published
              /\ Finished(2) => ~FundraiserC.published
    /\ \A k \in TaskIds :
          (C7_BulkCase(k) /\ Finished(k)) => ~FundraiserC.published

Delivers(eventType, forceUpdate) ==
    eventType = "profile.updated" \/ forceUpdate

\* C7 amended: a node created by a sync with status Active ends published,
\* and the same node synced again with status Draft ends unpublished when
\* the second sync is a 'profile.updated' or carries forceUpdate (a bulk
\* import run with the force option).
C7_DraftEndsUnpublishedWhenWritten ==
    /\ \A second \in UNION {SyncCalls(path) : path \in TeamPaths} :
          (C7_PairCase(second)
              /\ Delivers(second.eventType, second.forceUpdate)) =>
              /\ tasks[2].pc = "idle" => FundraiserC.published
              /\ Finished(2) => (Resolved(2) /\ ~FundraiserC.published)
    /\ \A k \in TaskIds :
          (C7_BulkCase(k) /\ scn.forceUpdate /\ Finished(k)) =>
              (Resolved(k) /\ ~FundraiserC.published)

C7_Witness ==
    /\ \E second \in UNION {SyncCalls(path) : path \in TeamPaths} :
          /\ C7_PairCase(second)
          /\ second.eventType = "profile.updated"
          /\ Resolved(2)
          /\ Requests(2, "createOrUpdateFundraiser", "unpublish") # {}
          /\ ~FundraiserC.published

\* the publish and unpublish calls a finished upsert or team sync issued
Issued(t, fn) ==
    [publish |-> Requests(t, fn, "publish") # {},
     unpublish |-> Requests(t, fn, "unpublish") # {}]

Expected(status, existed) ==
    [publish |-> status = "ACTIVE",
     unpublish |-> status \in {"DRAFT", "ARCHIVED"} /\ existed]

\* C8: after the content write, createOrUpdateFundraiser and syncTeam issue
\* a publish call exactly when the status is Active, an unpublish call
\* exactly when the status is Draft or archived and the node already
\* existed, and neither call otherwise.
C8_PublishTransitions ==
    \A t \in 1..Len(scn.calls) :
        (PairRun("seq") /\ Resolved(t)) =>
            /\ (scn.calls[t].fn = "syncTeam") =>
                  Issued(t, "syncTeam") =
                      Expected(scn.calls[t].data.status,
                               tasks[t].result.action = "updated")
            /\ (scn.calls[t].fn = "syncFundraiser"
                  /\ tasks[t].result.action # "found") =>
                  Issued(t, "createOrUpdateFundraiser") =
                      Expected(scn.calls[t].data.status,
                               tasks[t].result.action = "updated")

-----------------------------------------------------------------------------
(* Idempotence *)

C9_Case ==
    /\ PairRun("seq")
    /\ scn.store \in {"Empty", "Setup"}
    /\ scn.calls[1] \in UNION {FirstSyncCalls(path) : path \in TeamPaths}
    /\ scn.calls[2] = scn.calls[1]
    /\ Finished(1) /\ Finished(2)

\* C9: upserting the same fundraiser input twice in sequence returns
\* 'created' and then 'updated', with the same full path after both calls
\* and a single node at that path.
C9_UpsertTwice ==
    C9_Case =>
        /\ Resolved(1) /\ Resolved(2)
        /\ tasks[1].result.action = "created"
        /\ tasks[2].result.action = "updated"
        /\ tasks[1].result.story.full_slug = tasks[2].result.story.full_slug
        /\ tasks[1].result.story.id = tasks[2].result.story.id
        /\ Cardinality({id \in StoryIds :
               stories[id].full_slug = tasks[1].result.story.full_slug}) = 1

C9_Witness ==
    /\ C9_Case
    /\ tasks[2].result.action = "updated"
    /\ Requests(1, "createOrUpdateFundraiser", "post") # {}
    /\ Requests(2, "createOrUpdateFundraiser", "put") # {}

C10_Case ==
    /\ PairRun("seq")
    /\ scn.calls = <<FolderCall, FolderCall>>
    /\ Finished(1) /\ Finished(2)

\* C10: getOrCreateCampaignFolder called twice in sequence for the same
\* campaign name returns a folder with the same full path both times, and
\* the second call issues no create request.
C10_ResolveTwice ==
    C10_Case =>
        /\ Resolved(1) /\ Resolved(2)
        /\ tasks[1].result.full_slug = tasks[2].result.full_slug
        /\ Creates(2) = {}

C10_Witness ==
    /\ C10_Case
    /\ scn.store = "Empty"
    /\ Creates(1) # {}
    /\ Creates(2) = {}
    /\ tasks[2].result.full_slug = CampaignPath(createSlug(CampaignName))

-----------------------------------------------------------------------------
(* The Team subfolder of a campaign folder *)

\* the campaign folders handed to a caller: the result of a direct call of
\* getOrCreateCampaignFolder, and the folder a sync holds once its own call
\* of getOrCreateCampaignFolder has returned
ObservedCampaignFolders ==
    {tasks[t].result : t \in {u \in 1..Len(scn.calls) :
                                 /\ scn.calls[u].fn = "getOrCreateCampaignFolder"
                                 /\ Resolved(u)}}
    \cup {tasks[t].sf.campaignFolder : t \in TaskIds}
    \cup {tasks[t].st.campaignFolder : t \in TaskIds}

\* C11: a campaign folder returned by getOrCreateCampaignFolder, or held by
\* a sync call, always has its Team subfolder fundraisers/<slug>/team in the
\* store, also after a rejected Team-folder create and while another
\* resolver is between its two creates.
C11_TeamFolderWithCampaign ==
    \A folder \in ObservedCampaignFolders \ {Null} :
        findTeamFolder(folder) # Null

-----------------------------------------------------------------------------
(* Creation races *)

CampaignFolders ==
    {s \in Stories :
        s.is_folder /\ s.full_slug = CampaignPath(createSlug(CampaignName))}

\* the call's create was rejected with a 422 and it looked the folder up
\* again: the exact-slug lookup appears twice among its requests
Retried(t) ==
    Cardinality(Requests(t, "getOrCreateCampaignFolder", "get")) = 2

\* both calls got past getFundraisersParentId
C12_Case ==
    /\ PairRun("par")
    /\ scn.calls = <<FolderCall, FolderCall>>
    /\ Finished(1) /\ Finished(2)
    /\ \A t \in {1, 2} : tasks[t].gcf.fundraisersParentId # NoId

\* C12: of two overlapping getOrCreateCampaignFolder calls for a campaign
\* that does not exist yet, the one whose create is rejected with a 422
\* looks the folder up again and returns it: both calls return the same
\* folder, neither fails, and the campaign has exactly one folder.
C12_RaceResolves ==
    C12_Case =>
        /\ Resolved(1) /\ Resolved(2)
        /\ tasks[1].result.id = tasks[2].result.id
        /\ CampaignFolders = {stories[tasks[1].result.id]}

C12_Witness ==
    /\ C12_Case
    /\ Retried(1) \/ Retried(2)
    /\ Resolved(1) /\ Resolved(2)
    /\ tasks[1].result.id = tasks[2].result.id
    /\ Cardinality(CampaignFolders) = 1

LastRequest(t) == tasks[t].log[Len(tasks[t].log)]

\* the call ended on the 422 that answered its create of the root folder
RootCreateRejected(t) ==
    /\ tasks[t].status = "failed"
    /\ tasks[t].error = "422"
    /\ LastRequest(t).fn = "getFundraisersParentId"
    /\ LastRequest(t).op = "post"

\* the event node a sync that returned went on with
EventOf(t) ==
    IF scn.calls[t].fn = "syncFundraiser" THEN tasks[t].sf.eventStory
    ELSE tasks[t].st.eventStory

IsSync(t) == scn.calls[t].fn \in {"syncFundraiser", "syncTeam"}

\* C13: when the create of the fundraisers root or of a campaign's event
\* node is rejected because another call created the node first, the call
\* resolves the existing node and continues with it: it neither fails on
\* the rejected create nor completes the sync without the event.
C13_RaceIsSuccess ==
    PairRun("par") =>
        \A t \in 1..Len(scn.calls) :
            /\ ~RootCreateRejected(t)
            /\ (IsSync(t) /\ Resolved(t)) => EventOf(t) # Null

-----------------------------------------------------------------------------
(* The campaign reference of a leaf *)

\* a syncFundraiser or syncTeam call of task t has returned
SyncReturned(t) ==
    /\ Resolved(t)
    /\ scn.driver = "pair" => IsSync(t)
    /\ tasks[t].result # Null

\* the campaign of the profile the call synced
SyncedCampaign(t) ==
    IF tasks[t].sf.fundraiserData # Null THEN tasks[t].sf.fundraiserData.campaign
    ELSE tasks[t].st.teamData.campaign

\* the node the call wrote, as the store holds it
WrittenLeaf(t) == stories[tasks[t].result.story.id]

\* C14: every fundraiser or team node written by a syncFundraiser or
\* syncTeam call that returned has content.campaign equal to the UUID of
\* the event node of its campaign.
C14_LeafReferencesEvent ==
    \A t \in TaskIds :
        (SyncReturned(t) /\ tasks[t].result.action \in {"created", "updated"})
            => /\ findEventStory(SyncedCampaign(t)) # Null
               /\ WrittenLeaf(t).content.campaign
                      = findEventStory(SyncedCampaign(t)).uuid

-----------------------------------------------------------------------------
(* Failures *)

Mutating == {"post", "put", "publish", "unpublish"}

\* the requests of task t that the store carried out and that change it
Writes(t) ==
    {k \in 1..Len(tasks[t].log) : tasks[t].log[k].op \in Mutating}

\* a request of getFundraisersParentId was rejected for task t
RootUnresolved(t) ==
    \E k \in 1..Len(tasks[t].log) :
        tasks[t].log[k].op = "rejected" /\ tasks[t].log[k].fn \in RootRequests

C15_Case ==
    /\ scn \in RootFaults
    /\ RootUnresolved(1)
    /\ Finished(1)

\* C15: when the fundraisers root can be neither found nor created, the
\* enclosing syncFundraiser or syncTeam call fails with that error and
\* creates or updates no campaign folder, event node or leaf node.
C15_RootFailureIsFatal ==
    C15_Case =>
        /\ tasks[1].status = "failed"
        /\ tasks[1].error = "500"
        /\ Writes(1) = {}
        /\ tasks[2].pc = "idle" => stories = StoreOf(scn.store)

C15_Witness ==
    /\ C15_Case
    /\ scn.store = "Empty"
    /\ Fault(1, "gfp_create") \in scn.faults
    /\ tasks[1].status = "failed"
    /\ stories = EmptyStore

\* task t is a direct addTeamMember call that ended without a team node:
\* findTeamStory found nothing, or its request was rejected
TeamUnresolved(t) ==
    /\ scn.driver = "pair"
    /\ t \in 1..Len(scn.calls)
    /\ scn.calls[t].fn = "addTeamMember"
    /\ Finished(t)
    /\ tasks[t].atm.teamStory = Null

\* C16: an addTeamMember call that cannot resolve the team node (the lookup
\* finds nothing, or fails) does not return normally: the failure reaches
\* the caller.
C16_UnresolvedTeamPropagates ==
    \A t \in TaskIds : TeamUnresolved(t) => ~Resolved(t)

\* a request issued from one of these points was rejected for task t
RejectedAt(t, pcs) ==
    \E k \in 1..Len(tasks[t].log) :
        tasks[t].log[k].op = "rejected" /\ tasks[t].log[k].fn \in pcs

C17_Case ==
    /\ scn \in SecondaryFaults
    /\ RejectedAt(1, SecondaryRequests)
    /\ Finished(1)

\* what the first call wrote before the rejected request is in the store:
\* the member in the team's list, the leaf with the content the call sent
Persisted(t) ==
    IF scn.calls[t].fn = "addTeamMember"
    THEN tasks[t].atm.teamStory # Null =>
            tasks[t].atm.memberUuid
                \in MemberSet(stories[tasks[t].atm.teamStory.id])
    ELSE tasks[t].result.action \in {"created", "updated"} =>
            /\ WrittenLeaf(t).content = tasks[t].result.story.content
            /\ EventOf(t) # Null => findEventStory(CampaignName) = EventOf(t)

\* C17: a rejected publish, unpublish or campaign back-reference patch does
\* not fail the call: createOrUpdateFundraiser (under syncFundraiser),
\* syncTeam and addTeamMember return normally and what they wrote before
\* the rejected request stays in the store.
C17_SecondaryFailuresTolerated ==
    C17_Case => Resolved(1) /\ Persisted(1)

C17_Witness ==
    /\ C17_Case
    /\ RejectedAt(1, {"cf_publish"})
    /\ Resolved(1)
    /\ tasks[1].result.action = "created"
    /\ ~WrittenLeaf(1).published

-----------------------------------------------------------------------------
(* Bulk runs: errors, dry run, unusable profiles *)

LeafWrites == {"cf_write", "st_write"}

Profiles == 1..Len(scn.profiles)

\* the bulk run is not stuck: a batch can start, a launched profile has a
\* request to issue, the next team member can start, or the batch can end
RunGoesOn ==
    \/ run.phase = "start"
    \/ \E k \in Batch(run.i) : InFlight(k)
    \/ Settled({k \in Batch(run.i) : tasks[k].pc # "idle"})

\* C18: in a bulk run a failure while one profile is processed is recorded
\* in the error summary (the error counter and an entry with the profile's
\* name and the error) and every other profile, of the same batch and of
\* later batches, is still processed.
C18_ErrorsIsolated ==
    scn \in BulkFaults =>
        /\ \A k \in Profiles :
              Finished(k) =>
                 IF RejectedAt(k, LeafWrites)
                 THEN /\ tasks[k].status = "errored"
                      /\ [profile |-> scn.profiles[k].name, error |-> "500"]
                             \in errors
                 ELSE Resolved(k)
        /\ statsErrors
              = Cardinality({k \in Profiles :
                               Finished(k) /\ RejectedAt(k, LeafWrites)})
        /\ run.phase # "finished" => RunGoesOn
        /\ run.phase = "finished" => \A k \in Profiles : Finished(k)

\* the first profile failed; the second, of its batch, and the third, of
\* the next batch, were processed
C18_Witness ==
    /\ scn \in BulkFaults
    /\ run.phase = "finished"
    /\ tasks[1].status = "errored"
    /\ statsErrors = 1
    /\ Resolved(2) /\ Resolved(3)
    /\ BatchSize < 3

\* C19: with the dry-run flag a bulk run issues no create, update, publish
\* or unpublish (it issues no request at all), and the store at the end of
\* the run is the store at its start.
C19_DryRunLeavesStore ==
    (scn.driver = "bulk" /\ scn.dryRun) =>
        /\ stories = StoreOf(scn.store)
        /\ \A t \in TaskIds : tasks[t].log = <<>>
        /\ cache = NoId

\* a dry run over a team, a member and an individual has ended, every
\* profile counted as processed
C19_Witness ==
    /\ scn.driver = "bulk" /\ scn.dryRun
    /\ run.phase = "finished"
    /\ \A k \in Profiles : Resolved(k) /\ tasks[k].result = Null
    /\ \E k \in Profiles : isTeamProfile(scn.profiles[k])
    /\ \E k \in Profiles : isTeamMember(scn.profiles[k])
    /\ stories = StoreOf(scn.store)

LacksNameOrPath(profile) == profile.name = <<>> \/ profile.path = <<>>

\* the node of a profile: under the Team folder for a team, under the
\* campaign folder for an individual
LeafOf(profile) ==
    LET folder == CampaignPath(createSlug(extractCampaignName(profile)))
    IN IF isTeamProfile(profile)
       THEN FirstWithSlug(folder \o Slash \o TeamSlug \o Slash \o profile.path)
       ELSE FirstWithSlug(folder \o Slash \o profile.path)

\* C20: a profile without name or without path is rejected at extraction:
\* no request is made for it, and every other profile of the run is
\* processed as in a run without it: its call returns and its node is in
\* the store (in a space that holds the campaign's folders at the start).
C20_UnusableProfileSkipped ==
    (BulkRun /\ run.phase = "finished" /\ scn.store # "Root") =>
        \A k \in Profiles :
            IF LacksNameOrPath(scn.profiles[k])
            THEN tasks[k].status = "skipped" /\ tasks[k].log = <<>>
            ELSE /\ Resolved(k)
                 /\ LeafOf(scn.profiles[k]) # Null
                 /\ LeafOf(scn.profiles[k]).name = scn.profiles[k].name

\* a team without name came first in its batch; the team and an individual
\* after it were processed
C20_Witness ==
    /\ scn \in UnusableRuns
    /\ run.phase = "finished"
    /\ LacksNameOrPath(scn.profiles[1])
    /\ isTeamProfile(scn.profiles[1])
    /\ tasks[1].status = "skipped"
    /\ Resolved(2) /\ Resolved(3)
    /\ LeafOf(scn.profiles[2]) # Null /\ LeafOf(scn.profiles[3]) # Null

-----------------------------------------------------------------------------
(* Slugs *)

IsSlugCall(t) == scn.driver = "pair" /\ scn.calls[t].fn = "createSlug"

\* C24: createSlug is idempotent: for every text x,
\* createSlug(createSlug(x)) equals createSlug(x).
C24_SlugIdempotent ==
    (IsSlugCall(1) /\ Finished(1) /\ Finished(2)) =>
        /\ tasks[2].result = tasks[1].result
        /\ createSlug(tasks[1].result) = tasks[1].result

C24_Witness ==
    /\ IsSlugCall(1) /\ Finished(1) /\ Finished(2)
    /\ scn.calls[1].text = <<"A", " ", "-", "b">>
    /\ tasks[1].result = <<"a", "-", "b">>
    /\ tasks[2].result = <<"a", "-", "b">>

SlugChars == Range(LowerSeq) \cup Digits \cup {Hyphen}

WellFormedSlug(slug) ==
    /\ \A i \in 1..Len(slug) : slug[i] \in SlugChars
    /\ \A i \in 1..(Len(slug) - 1) : ~(slug[i] = Hyphen /\ slug[i + 1] = Hyphen)
    /\ slug # <<>> => slug[1] # Hyphen /\ slug[Len(slug)] # Hyphen

\* C25: for every text, the output of createSlug contains only characters
\* of [a-z0-9-], has no two adjacent hyphens, and neither begins nor ends
\* with a hyphen.
C25_SlugWellFormed ==
    \A t \in {1, 2} :
        (IsSlugCall(t) /\ Finished(t)) => WellFormedSlug(tasks[t].result)

-----------------------------------------------------------------------------
(* Profile kinds *)

IsCampaignKind(profile) == profile.type = "GROUP" /\ profile.isCampaignProfile

\* the fundraiser and team nodes of the store
Leaves == {s \in Stories : ~s.is_folder /\ s.content.component = "fundraiser"}

\* C21: a campaign-kind profile (type GROUP with isCampaignProfile true) is
\* never synced as a leaf: processing it creates or updates no fundraiser
\* node and no team node.
C21_CampaignNeverSynced ==
    scn.driver = "bulk" =>
        \A k \in Profiles :
            IsCampaignKind(scn.profiles[k]) =>
                /\ Writes(k) = {}
                /\ \A s \in Leaves :
                      s.content.raisely_id # scn.profiles[k].uuid


-----------------------------------------------------------------------------
(* Campaign-name derivation *)

IsExtractCall(t) ==
    /\ scn.driver = "pair"
    /\ scn.calls[t].fn \in {"extractFundraiserData", "extractTeamData"}

\* the parent chain of a profile, nearest ancestor first
RECURSIVE Ancestors(_)
Ancestors(profile) ==
    IF profile.parent = Null THEN <<>>
    ELSE <<profile.parent>> \o Ancestors(profile.parent)

IsCampaignAncestor(ancestor) == ancestor.isCampaignProfile

CampaignAncestors(profile) == SelectSeq(Ancestors(profile), IsCampaignAncestor)

Topmost(profile) == Ancestors(profile)[Len(Ancestors(profile))]

\* the first segment of a path of more than one segment, else the default
FromPath(path) ==
    IF \E i \in 1..Len(path) : path[i] = "/"
    THEN SubSeq(path, 1, (CHOOSE i \in 1..Len(path) :
                             path[i] = "/" /\ \A j \in 1..(i - 1) : path[j] # "/") - 1)
    ELSE DefaultCampaign

\* the call has returned the extracted record
Extracted(t) == IsExtractCall(t) /\ Finished(t) /\ tasks[t].result # Null

\* C22 as stated: the campaign name is the name of the nearest ancestor that
\* is a campaign profile; when the chain is absent or holds no campaign
\* ancestor it is the first segment of the profile's path, or the default
\* label when the path has no such segment.
C22_CampaignFromChainOrPath ==
    \A t \in {1, 2} :
        Extracted(t) =>
            LET profile == scn.calls[t].profile
            IN tasks[t].result.campaign =
                   IF CampaignAncestors(profile) # <<>>
                   THEN Head(CampaignAncestors(profile)).name
                   ELSE FromPath(profile.path)

\* C22, amended: for a profile that carries no campaign field of its own, the
\* campaign name is the name of the nearest ancestor that is a campaign
\* profile; when the chain holds no campaign ancestor it is the name of the
\* chain's topmost ancestor, or the default label when that ancestor has no
\* name; when the profile has no parent it is the first segment of the
\* profile's path if the path has more than one segment, and the default
\* label otherwise.
C22_CampaignFromChain ==
    \A t \in {1, 2} :
        (Extracted(t) /\ scn.calls[t].profile.campaign = Null) =>
            LET profile == scn.calls[t].profile
            IN tasks[t].result.campaign =
                   IF CampaignAncestors(profile) # <<>>
                   THEN Head(CampaignAncestors(profile)).name
                   ELSE IF Ancestors(profile) = <<>>
                        THEN FromPath(profile.path)
                   ELSE IF Topmost(profile).name # <<>>
                        THEN Topmost(profile).name
                   ELSE DefaultCampaign

\* an individual under a team under a campaign that is itself under the
\* campaign, extracted with the nearer campaign's name, and a team that is
\* nobody's child, extracted with its own path's first segment
C22_Witness ==
    /\ Extracted(1) /\ Extracted(2)
    /\ scn.calls[1].profile.campaign = Null
    /\ Len(Ancestors(scn.calls[1].profile)) = 3
    /\ tasks[1].result.campaign = SubCampaign.name
    /\ scn.calls[2].profile.parent = Null
    /\ tasks[2].result.campaign = <<"r","u","n">>


-----------------------------------------------------------------------------
(* Teams before individuals *)

Started(t) == tasks[t].pc # "idle"

\* C23: in a bulk run with no type filter, every team profile has finished
\* processing before the first individual profile starts processing.
C23_TeamsBeforeIndividuals ==
    (scn.driver = "bulk" /\ scn.type = "") =>
        \A j, k \in Profiles :
            (IsTeamAt(j) /\ IsIndividualAt(k) /\ Started(k)) => Finished(j)

\* the export lists an individual before the team; the team's sync has
\* written its node and ended, and the individual's sync is under way
C23_Witness ==
    /\ scn.driver = "bulk" /\ scn.type = ""
    /\ \E j, k \in Profiles :
          /\ k < j
          /\ IsTeamAt(j) /\ Resolved(j) /\ Writes(j) # {}
          /\ IsIndividualAt(k) /\ InFlight(k)


-----------------------------------------------------------------------------
(* Amounts *)

\* the feed record task t was given: a profile of the export, or the profile
\* of a webhook payload
HasFeedRecord(t) ==
    \/ scn.driver = "bulk" /\ t \in Profiles
    \/ /\ scn.driver = "pair" /\ t \in 1..Len(scn.calls)
       /\ scn.calls[t].fn = "handleRaiselyWebhook"

FeedRecord(t) ==
    IF scn.driver = "bulk" THEN scn.profiles[t] ELSE scn.calls[t].profile

\* minor units to major units, two decimals, once
MajorUnits(amount) ==
    IF amount = Null \/ amount = NaN THEN Zero
    ELSE [units |-> amount.num \div 100, hundredths |-> amount.num % 100]

\* task t has written the node of its feed record, and no later webhook for
\* the same profile has begun
WroteLeaf(t) ==
    /\ HasFeedRecord(t)
    /\ Resolved(t) /\ tasks[t].result # Null
    /\ tasks[t].result.action \in {"created", "updated"}
    /\ scn.driver = "pair" => \A u \in (t + 1)..Len(scn.calls) : ~Started(u)

\* C26: the amounts written to the store are the feed record's minor-unit
\* amounts divided by 100 to two decimals (500 gives 5.00, 15000 gives
\* 150.00), with 0, null and NaN written as 0: the conversion is applied
\* exactly once between the feed record and the store.
C26_AmountsConvertedOnce ==
    \A t \in TaskIds :
        WroteLeaf(t) =>
            LET content == stories[tasks[t].result.story.id].content
            IN /\ content.target_amount = MajorUnits(FeedRecord(t).goal)
               /\ content.raised_amount = MajorUnits(FeedRecord(t).total)

\* what holds of the importer, in a run whose export lists no team member
\* (a member's sync may rewrite its team's node)
AmountsConvertedInBulk ==
    (scn.driver = "bulk" /\ \A k \in Profiles : ~isTeamMember(scn.profiles[k]))
        => C26_AmountsConvertedOnce

\* a bulk run has written 5.00 and 150.00 for the amounts 500 and 15000
AmountsWrittenInBulk ==
    /\ scn.driver = "bulk"
    /\ \E t \in Profiles :
          /\ WroteLeaf(t)
          /\ FeedRecord(t).goal = Num(500) /\ FeedRecord(t).total = Num(15000)
          /\ stories[tasks[t].result.story.id].content.target_amount =
                 [units |-> 5, hundredths |-> 0]
          /\ stories[tasks[t].result.story.id].content.raised_amount =
                 [units |-> 150, hundredths |-> 0]


-----------------------------------------------------------------------------
(* addTeamMember's write-back *)

\* task t's write-back of the team node is this step
WritesBack(t) == tasks[t].pc = "atm_put" /\ tasks'[t].pc = "atm_publish"

\* C27: an edit to a content field other than team that another writer
\* applies to the team node between addTeamMember's re-fetch and its
\* write-back is still present after the write-back: the write-back changes
\* no field but team of the content the node holds when it is written.
C27_WriteBackKeepsEdits ==
    [][\A t \in TaskIds :
          WritesBack(t) =>
              LET id == tasks[t].atm.teamStory.id
              IN \A field \in (DOMAIN stories[id].content) \ {"team"} :
                     stories'[id].content[field] = stories[id].content[field]]_vars


-----------------------------------------------------------------------------
(* The parallel group of a batch *)

\* the nodes task t has created, updated, published or unpublished
WrittenIds(t) == {tasks[t].log[k].id : k \in Writes(t)} \ {NoId}

\* the batch's Promise.all is pending
InParallel == scn.driver = "bulk" /\ run.phase = "parallel"

\* C28: profiles dispatched in parallel within one batch (team profiles and
\* individuals whose parent is not a team) never have two in-flight syncs
\* writing the same store node.
C28_ParallelWritesDisjoint ==
    InParallel =>
        \A j, k \in individualsWithoutTeams(run.i) :
            j # k => WrittenIds(j) \cap WrittenIds(k) = {}

\* what holds when setupCampaignFolders has run
ParallelWritesDisjointAfterSetup ==
    (InParallel /\ scn.store # "Root") => C28_ParallelWritesDisjoint

\* two syncs of one parallel group have each written a node
ParallelWritesAfterSetup ==
    /\ InParallel /\ scn.store # "Root"
    /\ \E j, k \in individualsWithoutTeams(run.i) :
          j # k /\ WrittenIds(j) # {} /\ WrittenIds(k) # {}


-----------------------------------------------------------------------------
(* getOrCreateCampaignFolder's requests *)

IsFolderCall(t) ==
    /\ scn.driver = "pair" /\ t \in 1..Len(scn.calls)
    /\ scn.calls[t].fn = "getOrCreateCampaignFolder"

IsFolderRequest(request) == request.fn = "getOrCreateCampaignFolder"

\* the requests getOrCreateCampaignFolder has had answered, in order
FolderRequests(t) == SelectSeq(tasks[t].log, IsFolderRequest)

\* a create the store answered with 422
IsRejectedCreate(request) == request.op = "post" /\ request.id = NoId

\* the campaign's folder as the store holds it
FolderNow == CampaignFolderAt(CampaignPath(createSlug(CampaignName)))

\* the run began with the campaign's folder in the store
FolderAtStart ==
    \E s \in Range(StoreOf(scn.store)) :
        s.is_folder /\ s.full_slug = CampaignPath(createSlug(CampaignName))

\* C29: getOrCreateCampaignFolder issues a create request only after both
\* the exact-slug lookup and the broad folder listing have missed; after a
\* create rejected with 422 it performs exactly one further exact-slug
\* lookup and, if that lookup also misses, rethrows the create error.
C29_CreateAfterLookups ==
    \A t \in TaskIds :
        IsFolderCall(t) =>
            LET requests == FolderRequests(t)
            IN \A p \in 1..Len(requests) :
                  /\ requests[p].op = "post" =>
                        /\ p >= 3
                        /\ requests[1].op = "get" /\ requests[2].op = "list"
                        /\ \A q \in 3..p : requests[q].op = "post"
                        /\ ~FolderAtStart
                  /\ IsRejectedCreate(requests[p]) =>
                        /\ p < Len(requests) =>
                              Len(requests) = p + 1 /\ requests[p + 1].op = "get"
                        /\ (Finished(t) /\ Fault(t, "gcf_retry") \notin scn.faults) =>
                              Len(requests) = p + 1
                        /\ (Finished(t) /\ FolderNow = Null) =>
                              tasks[t].status = "failed" /\ tasks[t].error = "422"
                        /\ (Finished(t) /\ Resolved(t)) =>
                              tasks[t].result = FolderNow

\* the slug is taken by a story that is no folder: both lookups miss, the
\* create is rejected, the one further lookup misses and the 422 is rethrown
C29_Witness ==
    /\ IsFolderCall(1) /\ Finished(1)
    /\ scn.store = "Squatted"
    /\ Len(FolderRequests(1)) = 4
    /\ FolderRequests(1)[1].op = "get" /\ FolderRequests(1)[2].op = "list"
    /\ IsRejectedCreate(FolderRequests(1)[3])
    /\ FolderRequests(1)[4].op = "get"
    /\ tasks[1].status = "failed" /\ tasks[1].error = "422"


-----------------------------------------------------------------------------
(* addTeamMember for a member the team already lists *)

\* task t's addTeamMember has re-fetched the team and found the member in
\* its list
AlreadyMember(t) ==
    /\ tasks[t].atm.fullTeamStory # Null
    /\ tasks[t].atm.memberUuid
           \in Range(currentMembers(tasks[t].atm.fullTeamStory))

\* the publish calls of addTeamMember, answered or rejected
MemberPublishes(t) ==
    Requests(t, "addTeamMember", "publish")
        \cup Requests(t, "atm_republish", "rejected")
        \cup Requests(t, "atm_publish", "rejected")

\* C30: when memberUuid is already in the re-fetched member list,
\* addTeamMember issues no content update for the team node (the list is
\* unchanged) and still issues a publish call for it.
C30_PresentMemberRepublished ==
    \A t \in TaskIds :
        AlreadyMember(t) =>
            /\ Requests(t, "addTeamMember", "put") = {}
            /\ Requests(t, "atm_put", "rejected") = {}
            /\ Finished(t) => Cardinality(MemberPublishes(t)) = 1

\* addTeamMember for member A of the team [A, B], called on its own, has
\* returned: the list is as it was and the one request after the re-fetch
\* is the publish
C30_Witness ==
    /\ scn.driver = "pair" /\ scn.calls[1] = AddMember(MemberA)
    /\ Finished(1) /\ AlreadyMember(1)
    /\ Cardinality(MemberPublishes(1)) = 1
    /\ LastRequest(1).op = "publish"
    /\ stories[tasks[1].atm.teamStory.id].content.team = <<MemberA, MemberB>>

-----------------------------------------------------------------------------
(* A folder at the path of a fundraiser *)

\* the folders the store held, when the run started, at the path task t's
\* syncFundraiser computes for its fundraiser
StaleFolders(t) ==
    IF /\ scn.driver = "pair" /\ t \in DOMAIN scn.calls
       /\ scn.calls[t].fn = "syncFundraiser"
    THEN {s \in Range(StoreOf(scn.store)) :
             /\ s.is_folder
             /\ s.full_slug =
                    CampaignPath(createSlug(scn.calls[t].data.campaign))
                        \o Slash \o scn.calls[t].data.path}
    ELSE {}

\* C31: if the node found at a fundraiser's computed full path is a folder,
\* the upsert surfaces an error (the call rejects) and does not update or
\* overwrite that node.
C31_FolderAtPathIsError ==
    \A t \in TaskIds :
        \A f \in StaleFolders(t) :
            /\ stories[f.id] = f
            /\ Finished(t) => tasks[t].status = "failed"

\* the folder at fundraisers/run/c has been overwritten by the sync of the
\* fundraiser c, and the call has resolved
C31_FolderOverwritten ==
    \E f \in StaleFolders(1) :
        /\ Finished(1) /\ Resolved(1)
        /\ stories[f.id] # f
        /\ stories[f.id].is_folder
        /\ stories[f.id].content.component = "fundraiser"

-----------------------------------------------------------------------------
(* The event back-references of a campaign folder *)

NoRepeat(list) ==
    \A i, j \in DOMAIN list : list[i] = list[j] => i = j

\* the positions in task t's log of the back-reference patches it issued
Patches(t) ==
    {k \in DOMAIN tasks[t].log :
        /\ tasks[t].log[k].fn = "updateCampaignEventReference"
        /\ tasks[t].log[k].op = "put"}

\* the event node was created by task t before position k of its log
CreatedEventBefore(t, k) ==
    \E j \in 1..(k - 1) :
        /\ tasks[t].log[j].fn = "createEventStory"
        /\ tasks[t].log[j].op = "post"
        /\ tasks[t].log[j].id # NoId

\* the patch is about to be issued for an event the caller's folder object
\* does not list
PatchesUnlisted(t) ==
    tasks[t].pc = "ucr_put" =>
        ~eventAlreadyReferenced(tasks[t].ev.campaignFolder,
                                tasks[t].ev.eventStory)

NoEventTwice ==
    \A s \in Stories : NoRepeat(currentEvents(s))

IsSetup(t) ==
    /\ scn.driver = "pair" /\ t \in DOMAIN scn.calls
    /\ scn.calls[t].fn = "setupCampaignFolders"

\* C32 as stated: the back-reference list is patched only when the event
\* node had to be created, the patch is skipped when the event's UUID is
\* already listed, and the list never holds the same event UUID twice.
C32_PatchOnlyAfterCreate ==
    /\ \A t \in TaskIds : \A k \in Patches(t) : CreatedEventBefore(t, k)
    /\ \A t \in TaskIds : PatchesUnlisted(t)
    /\ NoEventTwice

\* C32, amended: syncFundraiser and syncTeam patch the back-reference list
\* only when the event node had to be created (setupCampaignFolders also
\* patches for an event it found); every patch is skipped when the event's
\* UUID is in the list of the folder object the caller holds; and the list
\* never holds the same event UUID twice.
C32_PatchSkippedWhenListed ==
    /\ \A t \in TaskIds :
           ~IsSetup(t) => \A k \in Patches(t) : CreatedEventBefore(t, k)
    /\ \A t \in TaskIds : PatchesUnlisted(t)
    /\ NoEventTwice

\* the setup of the campaign has run twice over a space whose event was
\* not referenced: the first run patched the list for the event it found,
\* the second skipped the patch, and the list holds the event once
C32_Witness ==
    /\ scn = Pair("seq", "Unlinked", SetupCall, SetupCall)
    /\ Finished(1) /\ Finished(2)
    /\ Patches(1) # {} /\ ~(\E k \in Patches(1) : CreatedEventBefore(1, k))
    /\ Patches(2) = {}
    /\ \E s \in Stories : Len(currentEvents(s)) = 1

-----------------------------------------------------------------------------
(* The cached id of the fundraisers root *)

\* task t found the cache empty and went to the store for the root
Populates(t) == Requests(t, "getFundraisersParentId", "get") # {}

\* the id task t's getFundraisersParentId returned
RootIdOf(t) == tasks[t].gcf.fundraisersParentId

\* once set, the cache keeps its value
CacheKept == cache # NoId => cache' = cache

CacheWriteOnce == [][CacheKept]_vars

\* the calls that got an id from getFundraisersParentId got the cached one,
\* the id of the one root folder
RacersAgree ==
    \A t \in TaskIds :
        RootIdOf(t) # NoId =>
            /\ RootIdOf(t) = cache
            /\ FundraisersFolder # Null /\ FundraisersFolder.id = cache

\* two overlapping calls both went to the store for the root; one created
\* it, and both hold its id
RacersAgreeReached ==
    /\ PairRun("par") /\ scn.store = "Empty"
    /\ Populates(1) /\ Populates(2)
    /\ RootIdOf(1) # NoId /\ RootIdOf(1) = RootIdOf(2)
    /\ Requests(1, "getFundraisersParentId", "post") # {}

\* C33: the cached fundraisers-root id, once set, never changes to a
\* different value, and every call that raced to populate it has stored and
\* returned that same id when it ends.
C33_CacheWriteOnceAndAgreed ==
    [][/\ CacheKept
       /\ \A t \in TaskIds :
              (Faultless /\ Populates(t) /\ Finished(t))' =>
                  (cache # NoId /\ RootIdOf(t) = cache)']_vars

-----------------------------------------------------------------------------
(* The order of the steps of one syncFundraiser call *)

IsSyncFundraiser(t) == tasks[t].sf.fundraiserData # Null

CampaignStep ==
    {"getFundraisersParentId", "getOrCreateCampaignFolder",
     "gfp_exact", "gfp_broad", "gfp_create",
     "gcf_exact", "gcf_broad", "gcf_create", "gcf_createTeam", "gcf_retry"}

EventStep ==
    {"findEventStory", "getOrCreateEventsFolder", "createEventStory",
     "updateCampaignEventReference",
     "sf_findEvent", "st_findEvent", "gef_list", "gef_create", "ces_post",
     "ucr_put"}

LeafStep ==
    {"syncFundraiser", "createOrUpdateFundraiser",
     "sf_checkExisting", "cf_lookup", "cf_write", "cf_publish", "cf_unpublish"}

MemberStep ==
    {"addTeamMember", "atm_find", "atm_fetch", "atm_put", "atm_publish",
     "atm_republish"}

\* the requests of task t that precede its first request for the leaf
BeforeLeaf(t, k) ==
    \A j \in 1..k : tasks[t].log[j].fn \notin LeafStep

\* request k of task t is the leaf's content write, answered
LeafWritten(t, k) ==
    /\ tasks[t].log[k].fn = "createOrUpdateFundraiser"
    /\ tasks[t].log[k].op \in {"post", "put"}
    /\ tasks[t].log[k].id # NoId

\* request k of task t is the lookup that found the leaf on the skip path
LeafSkipped(t, k) ==
    /\ tasks[t].log[k].fn = "syncFundraiser"
    /\ tasks[t].sf.existingStory # Null /\ ~tasks[t].sf.forceUpdate

StepsInOrder(t) ==
    LET log == tasks[t].log
    IN /\ \A k \in DOMAIN log :
              \* the event is resolved after the campaign folder
              /\ (log[k].fn \in EventStep /\ BeforeLeaf(t, k)) =>
                     /\ \E j \in 1..(k - 1) : log[j].fn \in CampaignStep
                     /\ \A j \in (k + 1)..Len(log) :
                            BeforeLeaf(t, j) => log[j].fn \notin CampaignStep
              \* the leaf is looked up and written after the event step
              /\ log[k].fn \in LeafStep =>
                     \E j \in 1..(k - 1) : log[j].fn \in EventStep
              \* after the leaf's content write: its publish step and the
              \* membership merge, nothing of the earlier steps
              /\ LeafWritten(t, k) =>
                     \A j \in (k + 1)..Len(log) :
                         \/ log[j].fn \in MemberStep
                         \/ log[j].fn = "findTeamStory"
                         \/ /\ log[j].fn \in LeafStep
                            /\ log[j].op \in {"publish", "unpublish", "rejected"}
              \* the membership is merged after the leaf's step
              /\ log[k].fn \in MemberStep =>
                     /\ \E j \in 1..(k - 1) :
                            LeafWritten(t, j) \/ LeafSkipped(t, j)
                     /\ \A j \in (k + 1)..Len(log) : log[j].fn \in MemberStep

-----------------------------------------------------------------------------
(* The publication of a team synced as a draft *)

\* the tasks that have called syncTeam, directly or for a minimal team
TeamSyncs == {t \in TaskIds : tasks[t].st.teamData # Null}

\* calls issued one after the other: the most recent syncTeam is that of
\* task t, it carried status DRAFT, wrote the team node and has returned
DraftTeamSync(t) ==
    /\ PairRun("seq")
    /\ t \in TeamSyncs /\ \A u \in TeamSyncs : u <= t
    /\ tasks[t].st.teamData.status = "DRAFT"
    /\ tasks[t].st.story # Null
    /\ scn.calls[t].fn = "syncTeam" /\ Finished(t)

\* a later task's addTeamMember has published the node
PublishedByMerge(t, id) ==
    \E u \in TaskIds :
        /\ u > t
        /\ \E k \in Requests(u, "addTeamMember", "publish") :
               tasks[u].log[k].id = id

\* C35 as stated: a team node whose most recent syncTeam carried status
\* DRAFT stays unpublished until a later sync of that team with status
\* ACTIVE; no addTeamMember call and no sync of a member publishes it.
C35_DraftTeamStaysUnpublished ==
    \A t \in TaskIds :
        DraftTeamSync(t) => ~stories[tasks[t].st.story.id].published

\* C35, amended: a team node left unpublished by its most recent syncTeam
\* with status DRAFT stays unpublished until a later sync of that team with
\* status ACTIVE or a later addTeamMember call for it, made directly or by
\* the sync of an individual member, which publishes the node whatever its
\* status.
C35_DraftTeamUnpublishedUntilMerge ==
    \A t \in TaskIds :
        (DraftTeamSync(t) /\ stories[tasks[t].st.story.id].published) =>
            PublishedByMerge(t, tasks[t].st.story.id)

\* the published team was synced with status DRAFT and unpublished; the
\* sync of its member C that followed has published it again
C35_Witness ==
    /\ DraftTeamSync(1)
    /\ Requests(1, "syncTeam", "unpublish") # {}
    /\ scn.calls[2].fn = "syncFundraiser" /\ Finished(2)
    /\ stories[tasks[1].st.story.id].published
    /\ PublishedByMerge(1, tasks[1].st.story.id)

-----------------------------------------------------------------------------
(* What the sync of a team's member leaves of the team node *)

TeamFieldNames ==
    {"name", "description", "target_amount", "raised_amount", "profile_url",
     "raisely_id"}

\* the content of a team node apart from its member list
TeamFields(story) == [f \in TeamFieldNames |-> story.content[f]]

\* task t runs syncFundraiser with team data
IsMemberSync(t) == IsSyncFundraiser(t) /\ tasks[t].sf.teamData # Null

\* a step of task t leaves those fields of every team node in the store
KeepsTeamFields(t) ==
    tasks'[t] # tasks[t] =>
        \A id \in DOMAIN stories :
            IsTeamNode(stories[id]) =>
                TeamFields(stories'[id]) = TeamFields(stories[id])

\* C36: syncing an individual with team data never changes the
\* non-membership content fields (name, description, target_amount,
\* raised_amount, profile_url, raisely_id) of a team node that already
\* exists in the store.
C36_MemberSyncKeepsTeamFields ==
    [][\A t \in TaskIds : IsMemberSync(t) => KeepsTeamFields(t)]_vars

\* the same, for a team whose path in the feed is the slug of its name
MemberSyncKeepsTeamFieldsAtNameSlug ==
    [][\A t \in TaskIds :
           (/\ IsMemberSync(t)
            /\ tasks[t].sf.teamData.path = createSlug(tasks[t].sf.teamData.name))
               => KeepsTeamFields(t)]_vars

\* the sync of member C has written the member list of the team that was
\* in the store
MemberSyncWroteTeam ==
    \E t \in TaskIds :
        /\ IsMemberSync(t) /\ Finished(t)
        /\ tasks[t].sf.teamData.path = createSlug(tasks[t].sf.teamData.name)
        /\ Requests(t, "addTeamMember", "put") # {}
        /\ Requests(t, "syncTeam", "post") = {}

-----------------------------------------------------------------------------
(* Repeated members *)

\* C37: a team's member list never contains the same UUID twice: starting
\* from a duplicate-free list, no sequence or interleaving of addTeamMember
\* and syncTeam calls produces a list with a repeated UUID.
C37_NoMemberTwice ==
    \A s \in Stories :
        IsTeamNode(s) => NoRepeat(Get(s.content, "team", <<>>))

\* two overlapping addTeamMember calls for the same new member C have both
\* fetched the list [A, B] and both written it back with C: the list holds
\* C once
C37_Witness ==
    /\ scn = Pair("par", "WithTeam", AddMember(MemberC), AddMember(MemberC))
    /\ Finished(1) /\ Finished(2)
    /\ Requests(1, "addTeamMember", "put") # {}
    /\ Requests(2, "addTeamMember", "put") # {}
    /\ \E s \in Stories :
           IsTeamNode(s) /\ s.content.team = <<MemberA, MemberB, MemberC>>

-----------------------------------------------------------------------------
(* The counters of a bulk run *)

Filtered == 1..Len(scn.profiles)

\* BulkImporter.stats, as processProfile has filled it so far
statsProcessed == Cardinality({t \in Filtered : tasks[t].status = "done"})
statsSkipped == Cardinality({t \in Filtered : tasks[t].status = "skipped"})

ActionOf(t) ==
    IF tasks[t].status = "done" /\ tasks[t].result # Null
    THEN tasks[t].result.action ELSE ""

statsCreated == Cardinality({t \in Filtered : ActionOf(t) = "created"})
statsUpdated == Cardinality({t \in Filtered : ActionOf(t) = "updated"})

-----------------------------------------------------------------------------
(* The end of a bulk run *)

\* C39: a bulk run reaches its final summary for every finite profile list
\* and every --batch-size and --delay value the CLI accepts, when every
\* store call returns.
C39_BulkRunTerminates ==
    (scn.driver = "bulk" /\ Faultless) ~> (run.phase = "finished")

\* the same, for the batch sizes that count upwards
BulkRunTerminatesCountingUp ==
    (scn.driver = "bulk" /\ Faultless /\ scn.batchSize > 0)
        ~> (run.phase = "finished")

\* a run with --batch-size=-1 is past its first batch: the loop counter is
\* negative, the slice is empty, and the last profile has not been processed
CountingDownReached ==
    /\ scn.driver = "bulk" /\ scn.batchSize < 0
    /\ run.i < 0 /\ Batch(run.i) = {}
    /\ tasks[Len(scn.profiles)].pc = "idle"

-----------------------------------------------------------------------------
(* The skip path of syncFundraiser *)

\* task t is on the skip path: a profile.created sync without forceUpdate
\* whose lookup found the node at the fundraiser's path
OnSkipPath(t) ==
    /\ tasks[t].sf.eventType = "profile.created"
    /\ tasks[t].sf.existingStory # Null
    /\ ~tasks[t].sf.forceUpdate

\* the node the lookup of task t found
SkippedId(t) == tasks[t].sf.existingStory.id

\* a request that changes the node it names
IsWrite(req) == req.op \in {"put", "publish", "unpublish"}

\* C40: on the skip path of syncFundraiser (profile.created, the node
\* exists, forceUpdate false) no step of the call issues an update, publish
\* or unpublish request for the fundraiser node, and no step of the call
\* changes the node: its content and its publication state after the call
\* are what they were before it.
C40_SkipPathLeavesFundraiser ==
    [][\A t \in TaskIds :
           (OnSkipPath(t)' /\ tasks[t]' # tasks[t]) =>
               /\ stories'[SkippedId(t)'] = stories[SkippedId(t)']
               /\ \A k \in (Len(tasks[t].log) + 1)..Len(tasks[t].log') :
                      IsWrite(tasks[t].log'[k]) =>
                          tasks[t].log'[k].id # SkippedId(t)']_vars

\* a skipped sync with team data has returned 'found': it wrote the team's
\* member list, and the fundraiser node is as the lookup found it
C40_Witness ==
    \E t \in TaskIds :
        /\ OnSkipPath(t) /\ Finished(t) /\ Resolved(t)
        /\ tasks[t].sf.teamData # Null
        /\ Requests(t, "addTeamMember", "put") # {}
        /\ \E k \in DOMAIN tasks[t].log :
               /\ tasks[t].log[k].fn = "syncFundraiser"
               /\ \A j \in (k + 1)..Len(tasks[t].log) :
                      tasks[t].log[j].fn \in MemberStep \cup {"findTeamStory"}
        /\ stories[SkippedId(t)] = tasks[t].sf.existingStory

====
